---- MODULE Spec2Model ----
(***************************************************************************)
(* Process-mining analytics pipeline of process-flow-2:                    *)
(*   event log -> extractCases -> extractVariants -> buildDirectlyFollows- *)
(*   Graph -> conservation checks -> metrics / bottlenecks -> aggregate-   *)
(*   Variants.                                                             *)
(* Timestamps are whole hours since an epoch, so a duration                *)
(* (t2 - t1) / (1000*60*60) is the integer difference of two timestamps.   *)
(* A JavaScript number that is the result of a division is kept as a       *)
(* fraction [n, d]; d = 0 encodes NaN (n = 0) and Infinity (n # 0).        *)
(***************************************************************************)
EXTENDS Integers, Sequences, FiniteSets, TLC

VARIABLES events, pc, cases, variants, dfg, consistency, report, dfgStats,
          totalFlow, metrics, bottlenecks, selection, aggregated,
          input, hook, pending, lastValidation

\* the state of the analytics pipeline
pipelineVars == <<events, pc, cases, variants, dfg, consistency, report, dfgStats,
                  totalFlow, metrics, bottlenecks, selection, aggregated>>
\* the state of the useEventLog hook: the document offered to it, its React state, the
\* file and URL loads in flight, and the last call of validateEventLog
hookVars == <<input, hook, pending, lastValidation>>

vars == <<events, pc, cases, variants, dfg, consistency, report, dfgStats,
          totalFlow, metrics, bottlenecks, selection, aggregated,
          input, hook, pending, lastValidation>>

(***************************************************************************)
(* Bounds of the model.                                                    *)
(***************************************************************************)
\* most events in a freely generated log
MaxEvents == 4
\* most cases in a freely generated log
NumCases == 3

\* the character U+2192 (rightwards arrow) of the variant and transition keys, written
\* in ASCII; the edge key of the graph has the two characters "->" instead
Arrow == "=>"
\* the arrow between two spaces
SpacedArrow == " " \o Arrow \o " "

\* activity names of the freely generated logs; like the state names of
\* permitStates.ts they hold none of the key separators (Arrow, SpacedArrow, "->"),
\* SeparatorShape below is the one log with a name that holds Arrow
Alphabet == {"A", "B", "C"}

\* Event.performer is string | null
NoPerformer == "null"
PerformerCycle == <<NoPerformer, "clerk_001", "reviewer_001">>
GapCycle == <<0, 1, 2>>

(***************************************************************************)
(* Generic helpers.                                                        *)
(***************************************************************************)
Range(s) == {s[i] : i \in DOMAIN s}

RECURSIVE SumSeq(_)
SumSeq(s) == IF s = <<>> THEN 0 ELSE Head(s) + SumSeq(Tail(s))

RECURSIVE Flatten(_)
Flatten(ss) == IF ss = <<>> THEN <<>> ELSE Head(ss) \o Flatten(Tail(ss))

Reverse(s) == [i \in 1..Len(s) |-> s[Len(s) + 1 - i]]

\* s.indexOf-style search: the first index whose element satisfies Test, 0 if none
FirstIndex(s, Test(_)) ==
    IF \E i \in DOMAIN s : Test(s[i])
    THEN CHOOSE i \in DOMAIN s : Test(s[i]) /\ \A j \in 1..(i - 1) : ~Test(s[j])
    ELSE 0

\* the distinct elements of s in order of first appearance (Set / Map insertion order)
Distinct(s) ==
    LET firsts == SelectSeq([i \in DOMAIN s |-> i],
                            LAMBDA i : \A j \in 1..(i - 1) : s[j] # s[i])
    IN  [k \in DOMAIN firsts |-> s[firsts[k]]]

\* Array.prototype.sort with comparator (a, b) => Key(a) - Key(b): stable, ascending.
\* Rank(keys, i) is the place element i takes in the sorted array.
Rank(keys, i) ==
    Cardinality({j \in DOMAIN keys :
                    keys[j] < keys[i] \/ (keys[j] = keys[i] /\ j <= i)})

SortAscBy(s, Key(_)) ==
    LET keys == [i \in DOMAIN s |-> Key(s[i])]
    IN  [k \in DOMAIN s |-> s[CHOOSE i \in DOMAIN s : Rank(keys, i) = k]]

Ident(x) == x
Negate(x) == 0 - x
\* numbers.sort((a, b) => a - b)
SortAsc(s) == SortAscBy(s, Ident)

(***************************************************************************)
(* JavaScript numbers that come out of a division.                         *)
(***************************************************************************)
Frac(a, b) == [n |-> a, d |-> b]
IsNaN(q) == q.d = 0 /\ q.n = 0
IsFinite(q) == q.d # 0
\* x || 0 for a quotient: NaN and 0 are falsy
OrZero(q) == IF IsNaN(q) \/ q.n = 0 THEN Frac(0, 1) ELSE q
\* mean: xs.reduce((sum, d) => sum + d, 0) / xs.length
MeanOf(xs) == Frac(SumSeq(xs), Len(xs))

\* xs[Math.floor(xs.length / 2)] || 0 on a sorted array (undefined and 0 are falsy)
MedianAt(xs) ==
    LET i == Len(xs) \div 2
    IN  IF i < Len(xs) THEN xs[i + 1] ELSE 0

\* a p95 that rounds the index up instead of down
MutP95At(xs) ==
    LET i == ((Len(xs) * 95) + 99) \div 100
    IN  IF i < Len(xs) THEN xs[i + 1] ELSE 0
\* xs[Math.floor(xs.length * 0.95)] || 0 on a sorted array
P95At(xs) ==
    LET i == (Len(xs) * 95) \div 100
    IN  IF i < Len(xs) THEN xs[i + 1] ELSE 0

(***************************************************************************)
(* The event logs the pipeline is run on.                                  *)
(***************************************************************************)
CaseName(c) == "case_" \o ToString(c)

\* hours between event j and event j + 1 of case c
Gap(c, j) == GapCycle[((2 * c + j) % Len(GapCycle)) + 1]

RECURSIVE TimeOf(_, _)
TimeOf(c, j) == IF j = 1 THEN c ELSE TimeOf(c, j - 1) + Gap(c, j - 1)

\* two consecutive cases share their performers, position by position
PerformerOf(c, j) == PerformerCycle[((((c + 1) \div 2) + j) % Len(PerformerCycle)) + 1]

\* the events of case c following the state sequence sq
CaseEvents(c, sq) ==
    [j \in 1..Len(sq) |->
        [case_id |-> CaseName(c), state |-> sq[j],
         timestamp |-> TimeOf(c, j), performer |-> PerformerOf(c, j)]]

\* the log of a shape (one state sequence per case), case after case
LogOf(shape) == Flatten([c \in 1..Len(shape) |-> CaseEvents(c, shape[c])])

RECURSIVE SeqsOfLen(_)
SeqsOfLen(n) ==
    IF n = 0 THEN {<<>>}
    ELSE {Append(s, x) : s \in SeqsOfLen(n - 1), x \in Alphabet}

\* shapes of k cases with at most b events in all, every case non-empty
RECURSIVE ShapesOf(_, _)
ShapesOf(k, b) ==
    IF k = 0 THEN {<<>>}
    ELSE UNION { UNION { {<<s>> \o rest : rest \in ShapesOf(k - 1, b - n)}
                         : s \in SeqsOfLen(n) }
                 : n \in 1..b }

\* the pipeline compares such names and joins them into keys, nothing else, so of the
\* shapes that differ only by renaming activities one is kept: the one naming them in order of
\* first appearance
AlphabetOrder == <<"A", "B", "C">>
Canonical(shape) ==
    LET seen == Distinct(Flatten(shape))
    IN  seen = SubSeq(AlphabetOrder, 1, Len(seen))

FreeShapes ==
    {shape \in UNION {ShapesOf(k, MaxEvents) : k \in 0..NumCases} : Canonical(shape)}

\* the concrete scenarios of the specification
ScenarioShape ==
    << <<"A", "B", "C">>, <<"A", "B", "C">>, <<"A", "B", "D">>, <<"A", "E">> >>
RepeatedLoopShape ==
    << <<"A", "B", "A", "B", "C">>, <<"A", "B", "A", "B", "C">>,
       <<"A", "B", "A", "B", "C">> >>
InfoLoopSequence ==
    <<"submitted", "intake_validation", "assigned_to_reviewer", "review_in_progress",
      "request_additional_info", "applicant_provided_info", "review_in_progress",
      "health_inspection", "approved">>
InfoLoopShape == << InfoLoopSequence >>
\* a state whose name holds the separator of the variant key
SeparatorShape == << <<"A" \o Arrow \o "B", "C">>, <<"A", "B", "C">> >>
\* five cases of one transition that has a configured expected time
OverdueShape == [c \in 1..5 |-> <<"intake_validation", "assigned_to_reviewer">>]

\* two variants of one case each, found before a variant of two cases
LateFrequentShape == << <<"A", "B">>, <<"A", "C">>, <<"A", "D">>, <<"A", "D">> >>

Shapes ==
    FreeShapes \cup {ScenarioShape, RepeatedLoopShape, InfoLoopShape, SeparatorShape,
                     OverdueShape, LateFrequentShape}

\* the events of case c following the state sequence sq, gaps[j] hours between
\* event j and event j + 1
RECURSIVE TimeAfter(_, _, _)
TimeAfter(c, gaps, j) == IF j = 1 THEN c ELSE TimeAfter(c, gaps, j - 1) + gaps[j - 1]

TimedCaseEvents(c, sq, gaps) ==
    [j \in 1..Len(sq) |->
        [case_id |-> CaseName(c), state |-> sq[j],
         timestamp |-> TimeAfter(c, gaps, j), performer |-> PerformerOf(c, j)]]

\* a frequent variant of a three-hour and a six-hour transition beside a rare variant of
\* nine immediate transitions
FrequentAndRareLog ==
    Flatten([c \in 1..10 |-> TimedCaseEvents(c, <<"P", "Q", "R">>, <<3, 6>>)])
    \o TimedCaseEvents(11, <<"A", "B", "C", "D", "E", "F", "G", "H", "I", "J">>,
                       <<0, 0, 0, 0, 0, 0, 0, 0, 0>>)

Logs == {LogOf(shape) : shape \in Shapes} \cup {FrequentAndRareLog}

\* the order in which the log source delivers the events
Layouts == {"in_order", "reversed"}
Layout(lay, log) == IF lay = "reversed" THEN Reverse(log) ELSE log

(***************************************************************************)
(* extractCases                                                            *)
(***************************************************************************)
TimestampOf(e) == e.timestamp

\* the group left in its input order
MutSortedByTimestamp(group) == group
\* caseEvents.sort((a, b) => new Date(a.timestamp).getTime() - new Date(b.timestamp).getTime())
SortedByTimestamp(group) == SortAscBy(group, TimestampOf)

extractCases(evs) ==
    LET ids == Distinct([i \in DOMAIN evs |-> evs[i].case_id])
        caseOf(caseId) ==
            LET group      == SelectSeq(evs, LAMBDA e : e.case_id = caseId)
                caseEvents == SortedByTimestamp(group)
                startTime  == caseEvents[1].timestamp
                endTime    == caseEvents[Len(caseEvents)].timestamp
            IN  [case_id |-> caseId,
                 events |-> caseEvents,
                 sequence |-> [j \in DOMAIN caseEvents |-> caseEvents[j].state],
                 start_time |-> startTime,
                 end_time |-> endTime,
                 total_duration_hours |-> endTime - startTime]
    IN  [k \in DOMAIN ids |-> caseOf(ids[k])]

(***************************************************************************)
(* extractVariants                                                         *)
(***************************************************************************)
VARIANT_DEFINITIONS ==
    << [key |-> "direct_approval",
        sequence |-> <<"submitted", "intake_validation", "assigned_to_reviewer",
                       "review_in_progress", "health_inspection", "approved">>],
       [key |-> "info_loop", sequence |-> InfoLoopSequence],
       [key |-> "rejected",
        sequence |-> <<"submitted", "intake_validation", "assigned_to_reviewer",
                       "review_in_progress", "health_inspection", "rejected">>],
       [key |-> "withdrawn",
        sequence |-> <<"submitted", "intake_validation", "assigned_to_reviewer",
                       "review_in_progress", "request_additional_info", "withdrawn">>] >>

\* variantId: the first known key whose sequence matches, else `unknown_${counter}`
\* (unknownCounter++ is evaluated for every group, known or not)
VariantIdOf(sequence, counter) ==
    LET k == FirstIndex(VARIANT_DEFINITIONS, LAMBDA d : d.sequence = sequence)
    IN  IF k # 0 THEN VARIANT_DEFINITIONS[k].key ELSE "unknown_" \o ToString(counter)

\* every adjacent event pair from -> to of one case, in event order:
\* its duration and the performer of the target event
OccurrencesInCase(evs, from, to) ==
    LET idx == SelectSeq([i \in 1..(Len(evs) - 1) |-> i],
                         LAMBDA i : evs[i].state = from /\ evs[i + 1].state = to)
    IN  [k \in DOMAIN idx |->
            [duration  |-> evs[idx[k] + 1].timestamp - evs[idx[k]].timestamp,
             performer |-> evs[idx[k] + 1].performer]]

Occurrences(variantCases, from, to) ==
    Flatten([c \in DOMAIN variantCases |->
                OccurrencesInCase(variantCases[c].events, from, to)])

DurationsOf(occ) == [k \in DOMAIN occ |-> occ[k].duration]

\* a count of the variant's cases instead of the occurrences
MutTransitionCount(variantCases, occ) == Len(variantCases)
\* actualTransitionCount after the scan of the cases' event streams: one per occurrence
TransitionCount(variantCases, occ) == Len(occ)

\* the Transition entry built in one iteration of the loop over the sequence;
\* performer_breakdown lists its keys in insertion order
TransitionOf(variantCases, from, to) ==
    LET occ        == Occurrences(variantCases, from, to)
        durations  == SortAsc(DurationsOf(occ))
        withPerf   == SelectSeq(occ, LAMBDA o : o.performer # NoPerformer)
        performers == Distinct([k \in DOMAIN withPerf |-> withPerf[k].performer])
        perfDurations(p) ==
            SortAsc(DurationsOf(SelectSeq(withPerf, LAMBDA o : o.performer = p)))
    IN  [from |-> from,
         to |-> to,
         count |-> TransitionCount(variantCases, occ),
         median_time_hours |-> MedianAt(durations),
         mean_time_hours |-> OrZero(MeanOf(durations)),
         percentile_95_hours |-> P95At(durations),
         performer_breakdown |->
            [k \in DOMAIN performers |->
                [performer |-> performers[k],
                 count |-> Len(perfDurations(performers[k])),
                 median_time_hours |-> MedianAt(perfDurations(performers[k])),
                 mean_time_hours |-> OrZero(MeanOf(perfDurations(performers[k])))]]]

\* one entry per position of the sequence, kept only if the pair occurs
TransitionsOf(variantCases, sequence) ==
    SelectSeq([i \in 1..(Len(sequence) - 1) |->
                  TransitionOf(variantCases, sequence[i], sequence[i + 1])],
              LAMBDA t : t.count > 0)

\* an occupancy that adds a case once per visit of the state
MutUniqueCases(variantCases, state) ==
    Flatten([k \in DOMAIN variantCases |->
                LET visits == SelectSeq(variantCases[k].events, LAMBDA e : e.state = state)
                IN  [j \in DOMAIN visits |-> variantCases[k].case_id]])
\* uniqueCases: the ids of the cases with some event in the state, each once
UniqueCases(variantCases, state) ==
    LET through == SelectSeq(variantCases,
                             LAMBDA c : \E j \in DOMAIN c.events :
                                           c.events[j].state = state)
    IN  Distinct([k \in DOMAIN through |-> through[k].case_id])

\* one entry per position of the sequence
StateOccupancyOf(variantCases, sequence) ==
    [i \in DOMAIN sequence |->
        LET ids == UniqueCases(variantCases, sequence[i])
        IN  [state |-> sequence[i],
             unique_case_count |-> Len(ids),
             unique_cases |-> ids]]

VariantOf(variantCases, counter) ==
    LET sequence       == variantCases[1].sequence
        totalDurations ==
            SortAsc([k \in DOMAIN variantCases |-> variantCases[k].total_duration_hours])
    IN  [variant_id |-> VariantIdOf(sequence, counter),
         sequence |-> sequence,
         case_count |-> Len(variantCases),
         cases |-> [k \in DOMAIN variantCases |-> variantCases[k].case_id],
         transitions |-> TransitionsOf(variantCases, sequence),
         state_occupancy |-> StateOccupancyOf(variantCases, sequence),
         total_median_hours |-> MedianAt(totalDurations),
         total_mean_hours |-> OrZero(MeanOf(totalDurations)),
         total_percentile_95_hours |-> P95At(totalDurations)]

\* a sort key that puts the rarest variant first
MutNegCaseCount(v) == v.case_count
\* variants.sort((a, b) => b.case_count - a.case_count)
NegCaseCount(v) == 0 - v.case_count

\* array.join(separator)
RECURSIVE Join(_, _)
Join(array, separator) ==
    IF Len(array) = 0 THEN ""
    ELSE IF Len(array) = 1 THEN array[1]
    ELSE array[1] \o separator \o Join(Tail(array), separator)

\* sequenceKey: the states joined into one string
SequenceKey(sequence) == Join(sequence, Arrow)

extractVariants(cs) ==
    LET keys == Distinct([k \in DOMAIN cs |-> SequenceKey(cs[k].sequence)])
        unsorted ==
            [g \in DOMAIN keys |->
                VariantOf(SelectSeq(cs, LAMBDA c : SequenceKey(c.sequence) = keys[g]), g)]
    IN  SortAscBy(unsorted, NegCaseCount)

(***************************************************************************)
(* buildDirectlyFollowsGraph                                               *)
(***************************************************************************)
\* the adjacent pairs <<from, to>> of a sequence, in order
PairsOf(sequence) ==
    [i \in 1..(Len(sequence) - 1) |-> <<sequence[i], sequence[i + 1]>>]

\* events.find(e => e.state === s): the first event in that state
FindEvent(evs, s) == evs[FirstIndex(evs, LAMBDA e : e.state = s)]

\* an edge key made of the source activity alone
MutEdgeKey(from, to) == from
\* const edgeKey = `${from}->${to}`
EdgeKey(from, to) == from \o "->" \o to

\* what one case adds to the edge stored under key: one entry per adjacent pair of its
\* sequence that has this key, timed between the first event in the pair's `from`
\* state and the first event in its `to` state
EdgeSamplesUnderKey(c, key) ==
    LET hits == SelectSeq(PairsOf(c.sequence), LAMBDA pr : EdgeKey(pr[1], pr[2]) = key)
    IN  [k \in DOMAIN hits |->
            [case_id   |-> c.case_id,
             duration  |-> FindEvent(c.events, hits[k][2]).timestamp
                             - FindEvent(c.events, hits[k][1]).timestamp,
             performer |-> FindEvent(c.events, hits[k][2]).performer]]

\* an edge count of the distinct cases instead of the occurrences
MutEdgeCount(samples) == Cardinality({samples[k].case_id : k \in DOMAIN samples})
\* edge.count after edge.count++ for every adjacent occurrence
EdgeCount(samples) == Len(samples)

EdgeOf(cs, from, to) ==
    LET samples  == Flatten([k \in DOMAIN cs |->
                                EdgeSamplesUnderKey(cs[k], EdgeKey(from, to))])
        withPerf == SelectSeq(samples, LAMBDA s : s.performer # NoPerformer)
    IN  [from |-> from,
         to |-> to,
         count |-> EdgeCount(samples),
         cases |-> [k \in DOMAIN samples |-> samples[k].case_id],
         durations |-> [k \in DOMAIN samples |-> samples[k].duration],
         performers |-> Distinct([k \in DOMAIN withPerf |-> withPerf[k].performer])]

\* end activities kept as a list with repeats
MutEndActivitiesOf(live) == [k \in DOMAIN live |-> live[k].sequence[Len(live[k].sequence)]]
\* Array.from(endActivities): the last states of the cases, as a set in insertion order
EndActivitiesOf(live) ==
    Distinct([k \in DOMAIN live |-> live[k].sequence[Len(live[k].sequence)]])

buildDirectlyFollowsGraph(cs) ==
    LET live       == SelectSeq(cs, LAMBDA c : Len(c.sequence) # 0)
        activities == Distinct(Flatten([k \in DOMAIN live |-> live[k].sequence]))
        allPairs   == Flatten([k \in DOMAIN cs |-> PairsOf(cs[k].sequence)])
        \* edgeMap.has(edgeKey): the pair that creates the entry of a key is the first
        firsts     == SelectSeq([i \in DOMAIN allPairs |-> i],
                          LAMBDA i : \A j \in 1..(i - 1) :
                              EdgeKey(allPairs[j][1], allPairs[j][2])
                                  # EdgeKey(allPairs[i][1], allPairs[i][2]))
        edgeKeys   == [k \in DOMAIN firsts |-> allPairs[firsts[k]]]
        edges      == [k \in DOMAIN edgeKeys |-> EdgeOf(cs, edgeKeys[k][1], edgeKeys[k][2])]
        nodeOf(activity) ==
            [activity |-> activity,
             frequency |->
                SumSeq([k \in DOMAIN live |->
                           Len(SelectSeq(live[k].sequence, LAMBDA s : s = activity))]),
             cases |-> {live[k].case_id : k \in {j \in DOMAIN live :
                                                   activity \in Range(live[j].sequence)}},
             incomingEdges |-> SelectSeq(edges, LAMBDA e : e.to = activity),
             outgoingEdges |-> SelectSeq(edges, LAMBDA e : e.from = activity)]
    IN  [nodes |-> [k \in DOMAIN activities |-> nodeOf(activities[k])],
         edges |-> edges,
         totalCases |-> Len(cs),
         startActivities |-> Distinct([k \in DOMAIN live |-> live[k].sequence[1]]),
         endActivities |-> EndActivitiesOf(live)]

\* a sum that counts the edges instead of adding their counts
MutEdgeCountSum(edges) == Len(edges)
\* edges.reduce((sum, edge) => sum + edge.count, 0)
EdgeCountSum(edges) == SumSeq([k \in DOMAIN edges |-> edges[k].count])

\* the balance rule with no exemption for an activity that is both start and end
MutConsistencyBalanced(g, activity, incomingCount, outgoingCount) ==
    IF activity \in Range(g.startActivities) THEN incomingCount = 0
    ELSE IF activity \in Range(g.endActivities) THEN outgoingCount = 0
    ELSE incomingCount = outgoingCount
\* isBalanced of validateDFGConsistency: its if / else-if chain over
\* dfg.startActivities.includes(activity) and dfg.endActivities.includes(activity)
ConsistencyBalanced(g, activity, incomingCount, outgoingCount) ==
    IF activity \in Range(g.startActivities) /\ activity \in Range(g.endActivities)
    THEN TRUE
    ELSE IF activity \in Range(g.startActivities) THEN incomingCount = 0
    ELSE IF activity \in Range(g.endActivities) THEN outgoingCount = 0
    ELSE incomingCount = outgoingCount

validateDFGConsistency(g) ==
    LET checkOf(node) ==
            LET incomingCount == EdgeCountSum(node.incomingEdges)
                outgoingCount == EdgeCountSum(node.outgoingEdges)
            IN  [activity |-> node.activity,
                 incoming |-> incomingCount,
                 outgoing |-> outgoingCount,
                 isBalanced |->
                    ConsistencyBalanced(g, node.activity, incomingCount, outgoingCount)]
        checks == [k \in DOMAIN g.nodes |-> checkOf(g.nodes[k])]
        errors == SelectSeq(checks, LAMBDA c : ~c.isBalanced)
    IN  [isConsistent |-> Len(errors) = 0,
         errors |-> [k \in DOMAIN errors |-> errors[k].activity],
         nodeChecks |-> [a \in {checks[k].activity : k \in DOMAIN checks} |->
                            LET c == checks[FirstIndex(checks, LAMBDA x : x.activity = a)]
                            IN  [incoming |-> c.incoming, outgoing |-> c.outgoing,
                                 isBalanced |-> c.isBalanced]]]

getDFGStatistics(g) ==
    LET totalTransitions == EdgeCountSum(g.edges)
        maxEdge == IF g.edges = <<>> THEN 0
                   ELSE CHOOSE m \in {g.edges[k].count : k \in DOMAIN g.edges} :
                            \A k \in DOMAIN g.edges : g.edges[k].count <= m
        maxNode == IF g.nodes = <<>> THEN 0
                   ELSE CHOOSE m \in {g.nodes[k].frequency : k \in DOMAIN g.nodes} :
                            \A k \in DOMAIN g.nodes : g.nodes[k].frequency <= m
        e == FirstIndex(g.edges, LAMBDA x : x.count = maxEdge)
        n == FirstIndex(g.nodes, LAMBDA x : x.frequency = maxNode)
    IN  [totalActivities |-> Len(g.nodes),
         totalTransitions |-> Len(g.edges),
         totalTransitionInstances |-> totalTransitions,
         averagePathLength |-> Frac(totalTransitions, g.totalCases),
         mostFrequentEdge |-> IF e = 0 THEN <<>> ELSE <<g.edges[e].from, g.edges[e].to>>,
         mostFrequentActivity |-> IF n = 0 THEN <<>> ELSE <<g.nodes[n].activity>>,
         startActivities |-> g.startActivities,
         endActivities |-> g.endActivities]

(***************************************************************************)
(* Conservation checker                                                    *)
(***************************************************************************)
NoError == "null"

\* outgoingCounts[transition.to] = transition.count, later entries overwriting
OutgoingCounts(ts) ==
    [to \in {ts[k].to : k \in DOMAIN ts} |->
        ts[CHOOSE k \in DOMAIN ts :
              ts[k].to = to /\ \A j \in DOMAIN ts : ts[j].to = to => j <= k].count]

checkVariantConservation(variant) ==
    LET states == Distinct(variant.sequence)
        ts     == variant.transitions
        checkOf(state) ==
            LET outs     == SelectSeq(ts, LAMBDA t : t.from = state)
                ins      == SelectSeq(ts, LAMBDA t : t.to = state)
                incoming == EdgeCountSum(ins)
                outgoing == EdgeCountSum(outs)
                isStart  == variant.sequence[1] = state
                isEnd    == variant.sequence[Len(variant.sequence)] = state
                verdict  ==
                    IF isStart /\ isEnd
                    THEN <<incoming = 0 /\ outgoing = 0, "single_state_has_transitions">>
                    ELSE IF isStart THEN <<incoming = 0, "start_has_incoming">>
                    ELSE IF isEnd THEN <<outgoing = 0, "end_has_outgoing">>
                    ELSE <<incoming = outgoing, "intermediate_imbalance">>
            IN  [node |-> state,
                 variant |-> variant.variant_id,
                 incoming_count |-> incoming,
                 outgoing_counts |-> OutgoingCounts(outs),
                 total_outgoing |-> outgoing,
                 is_balanced |-> verdict[1],
                 error_message |-> IF verdict[1] THEN NoError ELSE verdict[2]]
    IN  [k \in DOMAIN states |-> checkOf(states[k])]

checkDFGConservation(g) ==
    LET checkOf(node) ==
            LET incomingCount == EdgeCountSum(node.incomingEdges)
                totalOutgoing == EdgeCountSum(node.outgoingEdges)
                isStart  == node.activity \in Range(g.startActivities)
                isEnd    == node.activity \in Range(g.endActivities)
                balanced == IF isStart /\ isEnd THEN TRUE
                            ELSE IF isStart THEN incomingCount = 0
                            ELSE IF isEnd THEN totalOutgoing = 0
                            ELSE incomingCount = totalOutgoing
            IN  [node |-> node.activity,
                 variant |-> "DFG",
                 incoming_count |-> incomingCount,
                 outgoing_counts |-> OutgoingCounts(node.outgoingEdges),
                 total_outgoing |-> totalOutgoing,
                 is_balanced |-> balanced,
                 error_message |->
                    IF balanced THEN NoError
                    ELSE IF isStart THEN "start_has_incoming"
                    ELSE IF isEnd THEN "end_has_outgoing"
                    ELSE "intermediate_imbalance"]
    IN  [k \in DOMAIN g.nodes |-> checkOf(g.nodes[k])]

HighFrequency == 100

\* no recommendation when every check passed
MutPassedRecommendation(passedChecks, totalChecks) == <<>>
\* if (passedChecks === allChecks.length) recommendations.push(...)
PassedRecommendation(passedChecks, totalChecks) ==
    IF passedChecks = totalChecks
    THEN <<"All conservation checks passed - data integrity confirmed">>
    ELSE <<>>

generateConservationReport(vs, g) ==
    LET perVariant == [k \in DOMAIN vs |-> checkVariantConservation(vs[k])]
        failing(checks) == \E i \in DOMAIN checks : ~checks[i].is_balanced
        allChecks == Flatten(perVariant) \o checkDFGConservation(g)
        passedChecks == Len(SelectSeq(allChecks, LAMBDA c : c.is_balanced))
        failedChecks == Len(allChecks) - passedChecks
        failedVariants ==
            SelectSeq([k \in DOMAIN vs |-> k], LAMBDA k : failing(perVariant[k]))
        highFrequencyImbalances ==
            SelectSeq(allChecks,
                      LAMBDA c : ~c.is_balanced /\ (c.incoming_count > HighFrequency
                                                    \/ c.total_outgoing > HighFrequency))
    IN  [overallStatus |-> IF failedChecks = 0 THEN "PASS" ELSE "FAIL",
         totalChecks |-> Len(allChecks),
         passedChecks |-> passedChecks,
         failedChecks |-> failedChecks,
         nodeResults |-> allChecks,
         variantResults |->
            [id \in {vs[k].variant_id : k \in DOMAIN vs} |->
                LET k == CHOOSE j \in DOMAIN vs :
                            vs[j].variant_id = id
                            /\ \A i \in DOMAIN vs : vs[i].variant_id = id => i <= j
                IN  [status |-> IF failing(perVariant[k]) THEN "FAIL" ELSE "PASS",
                     checks |-> perVariant[k]]],
         summary |->
            [criticalErrors |->
                (IF failedChecks > 0 THEN <<"conservation law violations detected">>
                 ELSE <<>>)
                \o (IF failedChecks > 0 /\ Len(failedVariants) > 0
                    THEN <<"Affected variants">> ELSE <<>>),
             warnings |->
                IF Len(highFrequencyImbalances) > 0
                THEN <<"high-frequency nodes with conservation issues">> ELSE <<>>,
             recommendations |->
                (IF failedChecks > 0
                 THEN <<"Review event log data for missing or duplicate events",
                        "Verify timestamp ordering within each case",
                        "Check for incomplete case traces">>
                 ELSE <<>>)
                \o (IF Len(highFrequencyImbalances) > 0
                    THEN <<"Prioritize fixing high-frequency conservation issues first">>
                    ELSE <<>>)
                \o PassedRecommendation(passedChecks, Len(allChecks))]]

(***************************************************************************)
(* calculateTotalFlow                                                      *)
(***************************************************************************)
SystemPerformer == "system"

\* what one case adds to the total-flow entry from -> to: per adjacent occurrence in
\* its sequence one time sample, taken between the first `from` and first `to` event
\* a transition key made of the target state alone
MutTransitionKey(from, to) == to
\* const transitionKey = `${fromState} → ${toState}`
TransitionKey(from, to) == from \o SpacedArrow \o to

\* what one case adds to the transition stored under key: one entry per adjacent pair
\* of its sequence that has this key
FlowSamplesOfCase(c, key) ==
    LET hits == SelectSeq(PairsOf(c.sequence),
                          LAMBDA pr : TransitionKey(pr[1], pr[2]) = key)
    IN  [k \in DOMAIN hits |->
            LET toEvent == FindEvent(c.events, hits[k][2])
            IN  [case_id   |-> c.case_id,
                 time      |-> toEvent.timestamp
                                 - FindEvent(c.events, hits[k][1]).timestamp,
                 performer |-> IF toEvent.performer = NoPerformer
                               THEN SystemPerformer ELSE toEvent.performer]]

FlowTransitionOf(cs, from, to) ==
    LET samples == Flatten([k \in DOMAIN cs |->
                               FlowSamplesOfCase(cs[k], TransitionKey(from, to))])
        performers == Distinct([k \in DOMAIN samples |-> samples[k].performer])
        timesOf(p) ==
            LET mine == SelectSeq(samples, LAMBDA s : s.performer = p)
            IN  [k \in DOMAIN mine |-> mine[k].time]
    IN  [from |-> from,
         to |-> to,
         count |-> Len(samples),
         times |-> [k \in DOMAIN samples |-> samples[k].time],
         performer_data |->
            [k \in DOMAIN performers |->
                [performer |-> performers[k], times |-> timesOf(performers[k])]],
         cases |-> Distinct([k \in DOMAIN samples |-> samples[k].case_id])]

calculateTotalFlow(cs) ==
    LET states == Distinct(Flatten([k \in DOMAIN cs |-> cs[k].sequence]))
        allPairs == Flatten([k \in DOMAIN cs |-> PairsOf(cs[k].sequence)])
        \* transitions.has(transitionKey): the pair that creates the entry of a key is
        \* the first one with that key
        firsts == SelectSeq([i \in DOMAIN allPairs |-> i],
                      LAMBDA i : \A j \in 1..(i - 1) :
                          TransitionKey(allPairs[j][1], allPairs[j][2])
                              # TransitionKey(allPairs[i][1], allPairs[i][2]))
        keys   == [k \in DOMAIN firsts |-> allPairs[firsts[k]]]
        occupancyOf(state) ==
            LET through == SelectSeq(cs, LAMBDA c : state \in Range(c.sequence))
                ids == Distinct([k \in DOMAIN through |-> through[k].case_id])
            IN  [state |-> state, cases |-> ids, unique_case_count |-> Len(ids)]
    IN  [transitions |->
            [k \in DOMAIN keys |-> FlowTransitionOf(cs, keys[k][1], keys[k][2])],
         state_occupancy |-> [k \in DOMAIN states |-> occupancyOf(states[k])]]

(***************************************************************************)
(* aggregateVariants                                                       *)
(***************************************************************************)
\* a split that hands back the whole string for every part
MutSplit(str, separator) == <<str, str>>
\* str.split(separator) for a non-empty separator
Split(str, separator) ==
    LET n == Len(str)
        m == Len(separator)
        IsSeparatorAt(i) == i + m - 1 <= n /\ SubSeq(str, i, i + m - 1) = separator
        RECURSIVE Pieces(_, _)
        \* the pieces from the one that begins at `begin`, the scan being at position i
        Pieces(begin, i) ==
            IF i > n THEN <<SubSeq(str, begin, n)>>
            ELSE IF IsSeparatorAt(i)
                 THEN <<SubSeq(str, begin, i - 1)>> \o Pieces(i + m, i + m)
                 ELSE Pieces(begin, i + 1)
    IN  Pieces(1, 1)

\* const key = `${transition.from} → ${transition.to}`
KeyOf(t) == t.from \o SpacedArrow \o t.to

\* the keys of the transitions of the selected variants, in insertion order
SelectedTransitions(vs) ==
    Distinct(Flatten([v \in DOMAIN vs |->
                         [k \in DOMAIN vs[v].transitions |-> KeyOf(vs[v].transitions[k])]]))

\* n copies of x
Repeat(x, n) == [i \in 1..n |-> x]

\* the final format of one aggregated transition
TransitionFormat(key, count, times, performerData, contributing) ==
    LET sorted == SortAsc(times)
        \* const [from, to] = key.split(' → ')
        parts  == Split(key, SpacedArrow)
    IN  [from |-> parts[1],
         to |-> parts[2],
         count |-> count,
         median_time_hours |-> MedianAt(sorted),
         mean_time_hours |-> OrZero(MeanOf(sorted)),
         percentile_95_hours |-> P95At(sorted),
         performer_breakdown |->
            [k \in DOMAIN performerData |->
                LET ts == SortAsc(performerData[k].times)
                IN  [performer |-> performerData[k].performer,
                     count |-> Len(ts),
                     median_time_hours |-> MedianAt(ts),
                     mean_time_hours |-> OrZero(MeanOf(ts))]],
         contributing_variants |-> contributing]

\* the fallback: volume recombined from the selected variants' own transitions
TransitionsFromSelection(vs) ==
    LET keys == SelectedTransitions(vs)
        \* every transition entry of every selected variant, tagged with its variant
        entries ==
            Flatten([v \in DOMAIN vs |->
                        [k \in DOMAIN vs[v].transitions |->
                            [variant_id |-> vs[v].variant_id, t |-> vs[v].transitions[k]]]])
        formatOf(key) ==
            LET mine == SelectSeq(entries, LAMBDA e : KeyOf(e.t) = key)
                perfEntries == Flatten([k \in DOMAIN mine |-> mine[k].t.performer_breakdown])
                performers == Distinct([k \in DOMAIN perfEntries |-> perfEntries[k].performer])
                perfTimes(p) ==
                    LET by == SelectSeq(perfEntries, LAMBDA b : b.performer = p)
                    IN  Flatten([k \in DOMAIN by |->
                                    Repeat(by[k].median_time_hours, by[k].count)])
            IN  TransitionFormat(
                    key,
                    SumSeq([k \in DOMAIN mine |-> mine[k].t.count]),
                    Flatten([k \in DOMAIN mine |->
                                Repeat(mine[k].t.median_time_hours, mine[k].t.count)]),
                    [k \in DOMAIN performers |->
                        [performer |-> performers[k], times |-> perfTimes(performers[k])]],
                    [k \in DOMAIN mine |->
                        [variant_id |-> mine[k].variant_id,
                         count |-> mine[k].t.count,
                         median_time_hours |-> mine[k].t.median_time_hours]])
    IN  [k \in DOMAIN keys |-> formatOf(keys[k])]

\* an aggregate that takes its volume from the selected variants although the total
\* flow data is given
MutTransitionsFromTotalFlow(vs, tf) == TransitionsFromSelection(vs)

\* volume from the total flow data: one transition per selected key that it holds
TransitionsFromTotalFlow(vs, tf) ==
    LET keys  == SelectedTransitions(vs)
        known == SelectSeq(keys, LAMBDA key :
                     \E k \in DOMAIN tf.transitions : KeyOf(tf.transitions[k]) = key)
        formatOf(key) ==
            LET total == tf.transitions[FirstIndex(tf.transitions,
                                                   LAMBDA x : KeyOf(x) = key)]
                having == SelectSeq(vs, LAMBDA v :
                              \E k \in DOMAIN v.transitions : KeyOf(v.transitions[k]) = key)
                contributing ==
                    [k \in DOMAIN having |->
                        LET vt == having[k].transitions[
                                     FirstIndex(having[k].transitions,
                                                LAMBDA x : KeyOf(x) = key)]
                        IN  [variant_id |-> having[k].variant_id,
                             count |-> vt.count,
                             median_time_hours |-> vt.median_time_hours]]
            IN  TransitionFormat(key, total.count, total.times, total.performer_data,
                                 contributing)
    IN  [k \in DOMAIN known |-> formatOf(known[k])]

OccupancyFromTotalFlow(vs, tf, allStates) ==
    LET known == SelectSeq(allStates, LAMBDA s :
                     \E k \in DOMAIN tf.state_occupancy : tf.state_occupancy[k].state = s)
        entryOf(state) ==
            LET total == tf.state_occupancy[FirstIndex(tf.state_occupancy,
                                                       LAMBDA x : x.state = state)]
                having == SelectSeq(vs, LAMBDA v :
                              \E k \in DOMAIN v.state_occupancy :
                                  v.state_occupancy[k].state = state)
            IN  [state |-> state,
                 unique_case_count |-> total.unique_case_count,
                 unique_cases |-> total.cases,
                 contributing_variants |->
                    [k \in DOMAIN having |->
                        LET so == having[k].state_occupancy[
                                     FirstIndex(having[k].state_occupancy,
                                                LAMBDA x : x.state = state)]
                        IN  [variant_id |-> having[k].variant_id,
                             unique_case_count |-> so.unique_case_count,
                             unique_cases |-> so.unique_cases]]]
    IN  [k \in DOMAIN known |-> entryOf(known[k])]

OccupancyFromSelection(vs) ==
    LET entries ==
            Flatten([v \in DOMAIN vs |->
                        [k \in DOMAIN vs[v].state_occupancy |->
                            [variant_id |-> vs[v].variant_id,
                             so |-> vs[v].state_occupancy[k]]]])
        states == Distinct([k \in DOMAIN entries |-> entries[k].so.state])
        entryOf(state) ==
            LET mine == SelectSeq(entries, LAMBDA e : e.so.state = state)
                ids  == Distinct(Flatten([k \in DOMAIN mine |-> mine[k].so.unique_cases]))
            IN  [state |-> state,
                 unique_case_count |-> Len(ids),
                 unique_cases |-> ids,
                 contributing_variants |->
                    [k \in DOMAIN mine |->
                        [variant_id |-> mine[k].variant_id,
                         unique_case_count |-> mine[k].so.unique_case_count,
                         unique_cases |-> mine[k].so.unique_cases]]]
    IN  [k \in DOMAIN states |-> entryOf(states[k])]

\* aggregateVariants(variants, totalFlowData): <<>> is null, <<a>> the AggregatedVariant;
\* withTotal says whether totalFlowData was passed
aggregateVariants(vs, tf, withTotal) ==
    IF Len(vs) = 0 THEN <<>>
    ELSE
    LET allStatesArray == Distinct(Flatten([v \in DOMAIN vs |-> vs[v].sequence]))
        allTotalTimes ==
            SortAsc(Flatten([v \in DOMAIN vs |->
                                Repeat(vs[v].total_median_hours, vs[v].case_count)]))
    IN  << [variant_ids |-> [v \in DOMAIN vs |-> vs[v].variant_id],
            sequence |-> allStatesArray,
            total_case_count |-> SumSeq([v \in DOMAIN vs |-> vs[v].case_count]),
            state_occupancy |->
                IF withTotal THEN OccupancyFromTotalFlow(vs, tf, allStatesArray)
                ELSE OccupancyFromSelection(vs),
            transitions |->
                IF withTotal THEN TransitionsFromTotalFlow(vs, tf)
                ELSE TransitionsFromSelection(vs),
            total_median_hours |-> MedianAt(allTotalTimes),
            total_mean_hours |-> OrZero(MeanOf(allTotalTimes)),
            total_percentile_95_hours |-> P95At(allTotalTimes)] >>

\* the total flow data after aggregateVariants returned: performer_data is copied with
\* new Map(...), which shares the sample arrays, and times.sort(...) sorts them in place
TotalFlowAfterAggregate(vs, tf, withTotal) ==
    IF Len(vs) = 0 \/ ~withTotal THEN tf
    ELSE LET keys == Range(SelectedTransitions(vs))
         IN  [tf EXCEPT !.transitions =
                 [k \in DOMAIN tf.transitions |->
                     IF KeyOf(tf.transitions[k]) \in keys
                     THEN [tf.transitions[k] EXCEPT !.performer_data =
                              [p \in DOMAIN tf.transitions[k].performer_data |->
                                  [tf.transitions[k].performer_data[p] EXCEPT !.times =
                                      SortAsc(tf.transitions[k].performer_data[p].times)]]]
                     ELSE tf.transitions[k]]]

(***************************************************************************)
(* calculateProcessMetrics and identifyBottlenecks                         *)
(***************************************************************************)
\* a < b for two finite quotients
FracLess(a, b) == a.n * b.d < b.n * a.d
FracAdd(a, b) == Frac(a.n * b.d + b.n * a.d, a.d * b.d)

RECURSIVE FracSum(_)
FracSum(qs) == IF qs = <<>> THEN Frac(0, 1) ELSE FracAdd(Head(qs), FracSum(Tail(qs)))

\* Array.prototype.sort with a comparator that puts a before b when Before(a, b): stable
SortByOrder(s, Before(_, _)) ==
    LET place(i) == Cardinality({j \in DOMAIN s :
                        Before(s[j], s[i]) \/ (~Before(s[i], s[j]) /\ j <= i)})
    IN  [k \in DOMAIN s |-> s[CHOOSE i \in DOMAIN s : place(i) = k]]

SliceTo(s, n) == SubSeq(s, 1, IF n < Len(s) THEN n ELSE Len(s))

\* the performer accumulator both functions build from the performer breakdowns:
\* one entry per performer, in insertion order
PerformerTotals(vs) ==
    LET entries ==
            Flatten([v \in DOMAIN vs |->
                Flatten([k \in DOMAIN vs[v].transitions |->
                    [b \in DOMAIN vs[v].transitions[k].performer_breakdown |->
                        [perf |-> vs[v].transitions[k].performer_breakdown[b],
                         to   |-> vs[v].transitions[k].to]]])])
        performers == Distinct([k \in DOMAIN entries |-> entries[k].perf.performer])
        totalOf(p) ==
            LET mine  == SelectSeq(entries, LAMBDA e : e.perf.performer = p)
                count == SumSeq([k \in DOMAIN mine |-> mine[k].perf.count])
                time  == FracSum([k \in DOMAIN mine |->
                             Frac(mine[k].perf.mean_time_hours.n * mine[k].perf.count,
                                  mine[k].perf.mean_time_hours.d)])
            IN  [performer |-> p,
                 count |-> count,
                 totalTime |-> time,
                 avgTime |-> Frac(time.n, time.d * count),
                 activities |-> Distinct([k \in DOMAIN mine |-> mine[k].to])]
    IN  [k \in DOMAIN performers |-> totalOf(performers[k])]

SlowerPerformer(a, b) == FracLess(b.avgTime, a.avgTime)

\* Math.max(1, Math.floor(n * 0.2))
TopFifth(n) == IF (n * 2) \div 10 > 1 THEN (n * 2) \div 10 ELSE 1

AllTransitions(vs) == Flatten([v \in DOMAIN vs |-> vs[v].transitions])

HoursPerDay == 24
TopVariants == 3

\* threw = TRUE: the call ended in a TypeError (cases[0] is undefined)
calculateProcessMetrics(cs, vs, g) ==
    IF Len(cs) = 0 THEN [threw |-> TRUE]
    ELSE
    LET durations == SortAsc([k \in DOMAIN cs |-> cs[k].total_duration_hours])
        extreme(Better(_, _)) ==
            LET k == CHOOSE i \in DOMAIN cs :
                        /\ \A j \in DOMAIN cs :
                              ~Better(cs[j].total_duration_hours, cs[i].total_duration_hours)
                        /\ \A j \in 1..(i - 1) :
                              cs[j].total_duration_hours # cs[i].total_duration_hours
            IN  [caseId |-> cs[k].case_id, duration |-> cs[k].total_duration_hours]
        top3 == SliceTo(vs, TopVariants)
        allTransitions == AllTransitions(vs)
        medians == [k \in DOMAIN allTransitions |-> allTransitions[k].median_time_hours]
        transitionTimes == SelectSeq(medians, LAMBDA m : m > 0)
        maxMedian == IF transitionTimes = <<>> THEN 0
                     ELSE CHOOSE m \in Range(transitionTimes) :
                              \A x \in Range(transitionTimes) : x <= m
        minMedian == IF transitionTimes = <<>> THEN 0
                     ELSE CHOOSE m \in Range(transitionTimes) :
                              \A x \in Range(transitionTimes) : m <= x
        pick(m) ==
            IF m = 0 THEN [from |-> "", to |-> "", medianTime |-> 0]
            ELSE LET k == FirstIndex(allTransitions, LAMBDA x : x.median_time_hours = m)
                 IN  [from |-> allTransitions[k].from, to |-> allTransitions[k].to,
                      medianTime |-> m]
        totals == PerformerTotals(vs)
        ranked == SortByOrder(totals, SlowerPerformer)
        slow   == SliceTo(ranked, TopFifth(Len(totals)))
        starts == SortAsc([k \in DOMAIN cs |-> cs[k].start_time])
        span   == starts[Len(starts)] - starts[1]
        casesPerDay == IF span > HoursPerDay THEN Frac(Len(cs) * HoursPerDay, span)
                       ELSE Frac(Len(cs), 1)
        hours  == Distinct([k \in DOMAIN cs |-> cs[k].start_time])
        inHour(h) == Len(SelectSeq(cs, LAMBDA c : c.start_time = h))
        busiest == hours[FirstIndex(hours, LAMBDA h : \A x \in Range(hours) :
                                                         inHour(x) <= inHour(h))]
    IN  [threw |-> FALSE,
         caseMetrics |->
            [totalCases |-> Len(cs),
             averageCaseDuration |-> MeanOf(durations),
             medianCaseDuration |-> durations[(Len(durations) \div 2) + 1],
             percentile95CaseDuration |-> durations[((Len(durations) * 95) \div 100) + 1],
             shortestCase |-> extreme(LAMBDA x, y : x < y),
             longestCase |-> extreme(LAMBDA x, y : x > y)],
         variantMetrics |->
            [totalVariants |-> Len(vs),
             mostCommonVariant |-> IF Len(vs) > 0 THEN vs[1].variant_id ELSE "unknown",
             variantCoverage |->
                Frac(SumSeq([k \in DOMAIN top3 |-> top3[k].case_count]) * 100, Len(cs)),
             variantComplexity |->
                Frac(SumSeq([k \in DOMAIN vs |-> Len(vs[k].sequence) * vs[k].case_count]),
                     Len(cs))],
         transitionMetrics |->
            [totalTransitions |-> Len(allTransitions),
             averageTransitionTime |-> MeanOf(transitionTimes),
             slowestTransition |-> pick(maxMedian),
             fastestTransition |-> pick(minMedian)],
         performerMetrics |->
            [totalPerformers |-> Len(totals),
             performerWorkload |->
                [k \in DOMAIN totals |->
                    [performer |-> totals[k].performer,
                     totalTransitions |-> totals[k].count,
                     averageTime |-> totals[k].avgTime,
                     activities |-> totals[k].activities]],
             bottleneckPerformers |-> [k \in DOMAIN slow |-> slow[k].performer]],
         throughputMetrics |->
            [casesPerDay |-> casesPerDay,
             casesPerWeek |-> Frac(casesPerDay.n * 7, casesPerDay.d),
             busiest24Hours |-> [start |-> busiest, caseCount |-> inHour(busiest)]]]

\* 'from->to': { min, max }, in hours
TimeRange(from, to, min, max) == [from |-> from, to |-> to, min |-> min, max |-> max]
TRANSITION_TIME_RANGES ==
    << TimeRange("submitted", "intake_validation", Frac(24, 1), Frac(48, 1)),
       TimeRange("intake_validation", "assigned_to_reviewer", Frac(1, 10), Frac(1, 2)),
       TimeRange("assigned_to_reviewer", "review_in_progress", Frac(48, 1), Frac(120, 1)),
       TimeRange("review_in_progress", "health_inspection", Frac(24, 1), Frac(168, 1)),
       TimeRange("review_in_progress", "request_additional_info", Frac(24, 1), Frac(168, 1)),
       TimeRange("request_additional_info", "applicant_provided_info",
                 Frac(48, 1), Frac(72, 1)),
       TimeRange("applicant_provided_info", "review_in_progress", Frac(48, 1), Frac(336, 1)),
       TimeRange("health_inspection", "approved", Frac(24, 1), Frac(120, 1)),
       TimeRange("health_inspection", "rejected", Frac(24, 1), Frac(120, 1)),
       TimeRange("request_additional_info", "withdrawn", Frac(12, 1), Frac(48, 1)) >>

MinAffectedCases == 10
MinHandled == 5

HigherScore(a, b) == FracLess(b.score, a.score)

\* the pool with every median time, the immediate transitions included
MutTransitionTimes(vs) ==
    [k \in DOMAIN AllTransitions(vs) |-> AllTransitions(vs)[k].median_time_hours]
\* allTransitionTimes before the sort: the median times above zero
TransitionTimes(vs) ==
    SelectSeq([k \in DOMAIN AllTransitions(vs) |->
                  AllTransitions(vs)[k].median_time_hours],
              LAMBDA m : m > 0)

identifyBottlenecks(vs) ==
    LET allTransitionTimes == SortAsc(TransitionTimes(vs))
        at == (Len(allTransitionTimes) * 9) \div 10
        p90Threshold == IF at < Len(allTransitionTimes) THEN allTransitionTimes[at + 1] ELSE 0
        ofVariant(v) ==
            LET hit == SelectSeq(v.transitions,
                                 LAMBDA x : x.median_time_hours >= p90Threshold
                                            /\ v.case_count >= MinAffectedCases)
            IN  [k \in DOMAIN hit |->
                    [type |-> "transition",
                     identifier |-> <<hit[k].from, hit[k].to>>,
                     score |-> Frac(hit[k].median_time_hours, 1),
                     affectedCases |-> v.case_count]]
        performerAverages == SortByOrder(PerformerTotals(vs), SlowerPerformer)
        slowPerformers ==
            SelectSeq(SliceTo(performerAverages, TopFifth(Len(performerAverages))),
                      LAMBDA x : x.count >= MinHandled)
        found ==
            Flatten([v \in DOMAIN vs |-> ofVariant(vs[v])])
            \o [k \in DOMAIN slowPerformers |->
                   [type |-> "performer",
                    identifier |-> <<slowPerformers[k].performer>>,
                    score |-> slowPerformers[k].avgTime,
                    affectedCases |-> slowPerformers[k].count]]
    IN  SortByOrder(found, HigherScore)

(***************************************************************************)
(* validateEventLog and the useEventLog hook.                              *)
(* A value of a parsed JSON document is kept as its typeof and its text;   *)
(* a nullable field of the hook state is a sequence, <<>> for null.        *)
(***************************************************************************)
\* most events in a freely generated raw log
MaxRawEvents == 1
\* most file and URL loads in flight at once
MaxPending == 2

Str(v) == [t |-> "string", v |-> v]
Num(v) == [t |-> "number", v |-> v]
Undefined == [t |-> "undefined", v |-> ""]
Null == [t |-> "null", v |-> ""]

FINAL_STATES == {"approved", "rejected", "withdrawn"}

\* the timestamps that parse, in hours
TimestampStrings == <<"2024-01-01T01:00:00.000Z", "2024-01-01T02:00:00.000Z">>

\* new Date(x).getTime(), in hours: <<>> is NaN; a number counts milliseconds
DateOf(x) ==
    IF x.t = "string" /\ x.v \in Range(TimestampStrings)
    THEN <<CHOOSE i \in DOMAIN TimestampStrings : TimestampStrings[i] = x.v>>
    ELSE IF x.t = "number" THEN <<0>>
    ELSE <<>>

RawEvent(c, s, ts, p) ==
    [isObject |-> TRUE, case_id |-> c, state |-> s, timestamp |-> ts, performer |-> p]
\* an element of the events array that is null
NullEvent ==
    [isObject |-> FALSE, case_id |-> Undefined, state |-> Undefined,
     timestamp |-> Undefined, performer |-> Undefined]

ValidRawEvents ==
    {RawEvent(Str(c), Str(s), Str(TimestampStrings[2]), Null) :
        c \in {"case_1", "case_2"}, s \in {"approved", "submitted"}}
    \cup {RawEvent(Str("case_1"), Str("approved"), Str(TimestampStrings[2]),
                   Str("clerk_001"))}

\* one field of a well-formed event replaced: absent, empty, of another type, or a
\* timestamp that does not parse
DefectiveRawEvents ==
    LET c  == Str("case_1")
        s  == Str("approved")
        ts == Str(TimestampStrings[2])
        bad == {Undefined, Str(""), Num("7")}
    IN  {RawEvent(x, s, ts, Null) : x \in bad}
        \cup {RawEvent(c, x, ts, Null) : x \in bad}
        \cup {RawEvent(c, s, x, Null) : x \in bad \cup {Str("not a date")}}
        \cup {RawEvent(c, s, ts, x) : x \in {Undefined, Num("7")}}
        \cup {NullEvent}

RawEvents == ValidRawEvents \cup DefectiveRawEvents

RawLog(items, metadataOk) ==
    [isObject |-> TRUE, events |-> [isArray |-> TRUE, items |-> items],
     metadataOk |-> metadataOk]
\* a document whose events member is absent or not an array
NoArrayLog(metadataOk) ==
    [isObject |-> TRUE, events |-> [isArray |-> FALSE, items |-> <<>>],
     metadataOk |-> metadataOk]
\* the document null
NullLog ==
    [isObject |-> FALSE, events |-> [isArray |-> FALSE, items |-> <<>>],
     metadataOk |-> FALSE]

RECURSIVE RawSeqs(_)
RawSeqs(n) ==
    IF n = 0 THEN {<<>>}
    ELSE {Append(s, e) : s \in RawSeqs(n - 1), e \in RawEvents}

FreeRawLogs ==
    {RawLog(items, m) : items \in UNION {RawSeqs(n) : n \in 0..MaxRawEvents},
                        m \in BOOLEAN}
    \cup {NoArrayLog(m) : m \in BOOLEAN} \cup {NullLog}

\* a complete case delivered latest event first
LateFirstLog ==
    RawLog(<<RawEvent(Str("case_1"), Str("approved"), Str(TimestampStrings[2]), Null),
             RawEvent(Str("case_1"), Str("submitted"), Str(TimestampStrings[1]), Null)>>,
           TRUE)
\* a case whose latest event is not final, delivered latest event first
OpenCaseLog ==
    RawLog(<<RawEvent(Str("case_1"), Str("submitted"), Str(TimestampStrings[2]), Null),
             RawEvent(Str("case_1"), Str("approved"), Str(TimestampStrings[1]), Null)>>,
           TRUE)
FixtureLogs == {LateFirstLog, OpenCaseLog}

RawLogs == FreeRawLogs \cup FixtureLogs

\* !x || typeof x !== 'string'
MissingString(x) == x.t # "string" \/ x.v = ""
\* x !== null && typeof x !== 'string'
InvalidPerformer(x) == x.t # "null" /\ x.t # "string"

ValidationError(kind, event, subject, detail) ==
    [kind |-> kind, event |-> event, subject |-> subject, detail |-> detail]

\* the errors pushed for the event at index i
FieldErrors(event, i) ==
    (IF MissingString(event.case_id)
     THEN <<ValidationError("Event missing case_id", i, "", "")>> ELSE <<>>)
    \o (IF MissingString(event.state)
        THEN <<ValidationError("Event missing state", i, "", "")>> ELSE <<>>)
    \o (IF MissingString(event.timestamp)
        THEN <<ValidationError("Event missing timestamp", i, "", "")>> ELSE <<>>)
    \o (IF InvalidPerformer(event.performer)
        THEN <<ValidationError("Event has invalid performer", i, "", "")>> ELSE <<>>)

\* caseGroups: the case_id values in order of first appearance, each with its events
CaseGroups(items) ==
    LET keys == Distinct([i \in DOMAIN items |-> items[i].case_id])
    IN  [g \in DOMAIN keys |->
            [caseId |-> keys[g],
             events |-> SelectSeq(items, LAMBDA e : e.case_id = keys[g])]]

DateKey(e) == DateOf(e.timestamp)[1]

\* the states events.sort(...) may leave last: with a timestamp that is NaN the
\* comparator is inconsistent and the order is up to the engine
LastStateChoices(group) ==
    IF \A i \in DOMAIN group : DateOf(group[i].timestamp) # <<>>
    THEN {SortAscBy(group, DateKey)[Len(group)].state}
    ELSE {group[i].state : i \in DOMAIN group}

RECURSIVE ChoicesOf(_)
ChoicesOf(sets) ==
    IF sets = <<>> THEN {<<>>}
    ELSE {<<x>> \o rest : x \in Head(sets), rest \in ChoicesOf(Tail(sets))}

\* the last states the sorts of one validation may produce, one per case group
SortOutcomes(eventLog) ==
    IF ~eventLog.isObject \/ ~eventLog.events.isArray
       \/ \E i \in DOMAIN eventLog.events.items : ~eventLog.events.items[i].isObject
    THEN {<<>>}
    ELSE LET groups == CaseGroups(eventLog.events.items)
         IN  ChoicesOf([g \in DOMAIN groups |-> LastStateChoices(groups[g].events)])

\* a property read of null throws a TypeError
Threw == [threw |-> TRUE, isValid |-> FALSE, errors |-> <<>>]

\* isValid: errors.length === 0
IsValid(errors) == Len(errors) = 0

\* the check of a case's last state against the final states
EndsFinal(lastState) == lastState.t = "string" /\ lastState.v \in FINAL_STATES

validateEventLog(eventLog, lastStates) ==
    IF ~eventLog.isObject THEN Threw
    ELSE IF ~eventLog.events.isArray
    THEN [threw |-> FALSE, isValid |-> FALSE,
          errors |-> <<ValidationError("Events must be an array", 0, "", "")>>]
    ELSE LET items == eventLog.events.items
             groups == CaseGroups(items)
             open == SelectSeq([g \in DOMAIN groups |-> g],
                               LAMBDA g : ~EndsFinal(lastStates[g]))
             errors ==
                (IF eventLog.metadataOk THEN <<>>
                 ELSE <<ValidationError("Metadata must include total_cases", 0, "", "")>>)
                \o Flatten([i \in DOMAIN items |-> FieldErrors(items[i], i)])
                \o [k \in DOMAIN open |->
                       ValidationError("Case does not end in final state", 0,
                                       groups[open[k]].caseId.v, lastStates[open[k]].v)]
         IN  IF \E i \in DOMAIN items : ~items[i].isObject THEN Threw
             ELSE [threw |-> FALSE, isValid |-> IsValid(errors), errors |-> errors]

\* useState's initial value, also what reset sets
InitialState ==
    [eventLog |-> <<>>, isLoading |-> FALSE, error |-> <<>>, validationResult |-> <<>>]

\* the eventLog member set after a validation that returned
MutHeldLog(validation, eventLog) == <<eventLog>>
HeldLog(validation, eventLog) == IF validation.isValid THEN <<eventLog>> ELSE <<>>

\* the state loadEventLog leaves: its second setState, or the one of its catch
loadEventLog(eventLog, lastStates) ==
    LET validation == validateEventLog(eventLog, lastStates)
    IN  IF validation.threw
        THEN [eventLog |-> <<>>, isLoading |-> FALSE, error |-> <<"TypeError">>,
              validationResult |-> <<>>]
        ELSE [eventLog |-> HeldLog(validation, eventLog),
              isLoading |-> FALSE,
              error |-> IF validation.isValid THEN <<>> ELSE <<"Validation failed">>,
              validationResult |->
                  <<[isValid |-> validation.isValid, errors |-> validation.errors]>>]

\* the state the catch of loadFromFile / loadFromUrl sets
LoadFailed(message) ==
    [eventLog |-> <<>>, isLoading |-> FALSE, error |-> <<message>>,
     validationResult |-> <<>>]

RemoveAt(s, i) == [k \in 1..(Len(s) - 1) |-> IF k < i THEN s[k] ELSE s[k + 1]]

\* The loads in flight are kept in the order they were started. Each carries a mark,
\* overtaken, that is history and no state of the hook: a load started after it has
\* completed, and nothing else has set the state since.
\* the loads left in flight when load i completes: those started before it are overtaken
AfterCompletion(loads, i) ==
    RemoveAt([k \in DOMAIN loads |->
                 IF k < i THEN [loads[k] EXCEPT !.overtaken = TRUE] ELSE loads[k]], i)
\* the loads in flight after another call has set the state
Unmarked(loads) == [k \in DOMAIN loads |-> [loads[k] EXCEPT !.overtaken = FALSE]]

(***************************************************************************)
(* The pipeline as a state machine: each stage runs once on the loaded log, *)
(* in the order of the data flow; aggregateVariants is then called for any  *)
(* selection of variants, any number of times.                              *)
(***************************************************************************)
Stages == <<"loaded", "cases", "variants", "dfg", "validated", "report", "stats",
            "flow", "metrics", "bottlenecks", "aggregated">>
StageNo(s) == CHOOSE i \in DOMAIN Stages : Stages[i] = s
Reached(s) == StageNo(pc) >= StageNo(s)

Init ==
    /\ \E log \in Logs, lay \in Layouts : events = Layout(lay, log)
    /\ pc = "loaded"
    /\ cases = <<>>
    /\ variants = <<>>
    /\ dfg = <<>>
    /\ consistency = <<>>
    /\ report = <<>>
    /\ dfgStats = <<>>
    /\ totalFlow = <<>>
    /\ metrics = <<>>
    /\ bottlenecks = <<>>
    /\ selection = [ids |-> {}, withTotal |-> FALSE]
    /\ aggregated = <<>>
    /\ input = NullLog
    /\ hook = InitialState
    /\ pending = <<>>
    /\ lastValidation = <<>>

ExtractCases ==
    /\ pc = "loaded"
    /\ cases' = extractCases(events)
    /\ pc' = "cases"
    /\ UNCHANGED <<events, variants, dfg, consistency, report, dfgStats, totalFlow,
                   metrics, bottlenecks, selection, aggregated>>
    /\ UNCHANGED hookVars

ExtractVariants ==
    /\ pc = "cases"
    /\ variants' = extractVariants(cases)
    /\ pc' = "variants"
    /\ UNCHANGED <<events, cases, dfg, consistency, report, dfgStats, totalFlow,
                   metrics, bottlenecks, selection, aggregated>>
    /\ UNCHANGED hookVars

BuildDFG ==
    /\ pc = "variants"
    /\ dfg' = buildDirectlyFollowsGraph(cases)
    /\ pc' = "dfg"
    /\ UNCHANGED <<events, cases, variants, consistency, report, dfgStats, totalFlow,
                   metrics, bottlenecks, selection, aggregated>>
    /\ UNCHANGED hookVars

ValidateDFG ==
    /\ pc = "dfg"
    /\ consistency' = validateDFGConsistency(dfg)
    /\ pc' = "validated"
    /\ UNCHANGED <<events, cases, variants, dfg, report, dfgStats, totalFlow,
                   metrics, bottlenecks, selection, aggregated>>
    /\ UNCHANGED hookVars

ConservationReport ==
    /\ pc = "validated"
    /\ report' = generateConservationReport(variants, dfg)
    /\ pc' = "report"
    /\ UNCHANGED <<events, cases, variants, dfg, consistency, dfgStats, totalFlow,
                   metrics, bottlenecks, selection, aggregated>>
    /\ UNCHANGED hookVars

DFGStatistics ==
    /\ pc = "report"
    /\ dfgStats' = getDFGStatistics(dfg)
    /\ pc' = "stats"
    /\ UNCHANGED <<events, cases, variants, dfg, consistency, report, totalFlow,
                   metrics, bottlenecks, selection, aggregated>>
    /\ UNCHANGED hookVars

CalculateTotalFlow ==
    /\ pc = "stats"
    /\ totalFlow' = calculateTotalFlow(cases)
    /\ pc' = "flow"
    /\ UNCHANGED <<events, cases, variants, dfg, consistency, report, dfgStats,
                   metrics, bottlenecks, selection, aggregated>>
    /\ UNCHANGED hookVars

CalculateProcessMetrics ==
    /\ pc = "flow"
    /\ metrics' = calculateProcessMetrics(cases, variants, dfg)
    /\ pc' = "metrics"
    /\ UNCHANGED <<events, cases, variants, dfg, consistency, report, dfgStats,
                   totalFlow, bottlenecks, selection, aggregated>>
    /\ UNCHANGED hookVars

IdentifyBottlenecks ==
    /\ pc = "metrics"
    /\ bottlenecks' = identifyBottlenecks(variants)
    /\ pc' = "bottlenecks"
    /\ UNCHANGED <<events, cases, variants, dfg, consistency, report, dfgStats,
                   totalFlow, metrics, selection, aggregated>>
    /\ UNCHANGED hookVars

\* the selected variants, in the order of the variant list (variants.filter(...))
Selected(vs, ids) == SelectSeq(vs, LAMBDA v : v.variant_id \in ids)
VariantIds(vs) == {vs[k].variant_id : k \in DOMAIN vs}

AggregateVariants ==
    /\ pc \in {"bottlenecks", "aggregated"}
    /\ \E ids \in SUBSET VariantIds(variants), withTotal \in BOOLEAN :
          /\ selection' = [ids |-> ids, withTotal |-> withTotal]
          /\ aggregated' = aggregateVariants(Selected(variants, ids), totalFlow, withTotal)
          /\ totalFlow' = TotalFlowAfterAggregate(Selected(variants, ids), totalFlow, withTotal)
    /\ pc' = "aggregated"
    /\ UNCHANGED <<events, cases, variants, dfg, consistency, report, dfgStats,
                   metrics, bottlenecks>>
    /\ UNCHANGED hookVars

Next ==
    \/ ExtractCases
    \/ ExtractVariants
    \/ BuildDFG
    \/ ValidateDFG
    \/ ConservationReport
    \/ DFGStatistics
    \/ CalculateTotalFlow
    \/ CalculateProcessMetrics
    \/ IdentifyBottlenecks
    \/ AggregateVariants

Spec == Init /\ [][Next]_vars

(***************************************************************************)
(* The useEventLog hook as a state machine                                 *)
(***************************************************************************)
\* the hook before any call, offered some document
LogInit ==
    /\ input \in RawLogs
    /\ hook = InitialState
    /\ pending = <<>>
    /\ lastValidation = <<>>
    /\ events = <<>>
    /\ pc = "loaded"
    /\ cases = <<>>
    /\ variants = <<>>
    /\ dfg = <<>>
    /\ consistency = <<>>
    /\ report = <<>>
    /\ dfgStats = <<>>
    /\ totalFlow = <<>>
    /\ metrics = <<>>
    /\ bottlenecks = <<>>
    /\ selection = <<>>
    /\ aggregated = <<>>

\* the user turns to another document, while no load is in flight
Offer ==
    /\ pending = <<>>
    /\ \E log \in FixtureLogs : log # input /\ input' = log
    /\ UNCHANGED <<hook, pending, lastValidation>>
    /\ UNCHANGED pipelineVars

\* loadEventLog(input): both of its setState calls
LoadEventLog ==
    /\ \E lastStates \in SortOutcomes(input) :
          /\ hook' = loadEventLog(input, lastStates)
          /\ lastValidation' = <<[log |-> input,
                                  result |-> validateEventLog(input, lastStates)]>>
    /\ pending' = Unmarked(pending)
    /\ UNCHANGED input
    /\ UNCHANGED pipelineVars

\* loadFromFile / loadFromUrl up to the first await
StartLoad(kind) ==
    /\ Len(pending) < MaxPending
    /\ hook' = [hook EXCEPT !.isLoading = TRUE, !.error = <<>>]
    /\ pending' = Append(Unmarked(pending),
                         [kind |-> kind, data |-> input, overtaken |-> FALSE])
    /\ UNCHANGED <<input, lastValidation>>
    /\ UNCHANGED pipelineVars

LoadFromFileStart == StartLoad("file")
LoadFromUrlStart == StartLoad("url")

\* the rest of loadFromFile / loadFromUrl: the read, fetch or parse fails, or the
\* parsed document goes through loadEventLog
FinishLoad(kind, message) ==
    \E i \in DOMAIN pending :
        /\ pending[i].kind = kind
        /\ pending' = AfterCompletion(pending, i)
        /\ \/ /\ hook' = LoadFailed(message)
              /\ UNCHANGED lastValidation
           \/ \E lastStates \in SortOutcomes(pending[i].data) :
                 /\ hook' = loadEventLog(pending[i].data, lastStates)
                 /\ lastValidation' =
                        <<[log |-> pending[i].data,
                           result |-> validateEventLog(pending[i].data, lastStates)]>>
        /\ UNCHANGED input
        /\ UNCHANGED pipelineVars

LoadFromFileDone == FinishLoad("file", "Failed to parse file")
LoadFromUrlDone == FinishLoad("url", "Failed to load from URL")

\* reset()
Reset ==
    /\ hook' = InitialState
    /\ pending' = Unmarked(pending)
    /\ UNCHANGED <<input, lastValidation>>
    /\ UNCHANGED pipelineVars

LogNext ==
    \/ Offer
    \/ LoadEventLog
    \/ LoadFromFileStart
    \/ LoadFromFileDone
    \/ LoadFromUrlStart
    \/ LoadFromUrlDone
    \/ Reset

LogSpec == LogInit /\ [][LogNext]_vars


(***************************************************************************)
(* Properties.                                                             *)
(***************************************************************************)
SequencesOfCases == [k \in DOMAIN cases |-> cases[k].sequence]

\* the cases of a variant, as extractCases returned them
CasesOfVariant(v) == SelectSeq(cases, LAMBDA c : c.case_id \in Range(v.cases))

\* the adjacent event pairs of one raw event stream that leave state s / that are from -> to
LeavesIn(evs, s) == Cardinality({i \in 1..(Len(evs) - 1) : evs[i].state = s})
PairsIn(evs, from, to) ==
    Cardinality({i \in 1..(Len(evs) - 1) : evs[i].state = from /\ evs[i + 1].state = to})

VariantChecks == Flatten([k \in DOMAIN variants |->
                             report.variantResults[variants[k].variant_id].checks])
DFGChecks == SelectSeq(report.nodeResults, LAMBDA c : c.variant = "DFG")

\* C1: for every variant extractVariants produces, loops included, checkVariantConservation
\* finds every state balanced (intermediate: incoming = outgoing; start: incoming = 0;
\* end: outgoing = 0).
C1_VariantFlowConserved ==
    Reached("report") =>
        \A i \in DOMAIN VariantChecks : VariantChecks[i].is_balanced

StartsAt(a) == Len(SelectSeq(cases, LAMBDA c : c.sequence[1] = a))
EndsAt(a) == Len(SelectSeq(cases, LAMBDA c : c.sequence[Len(c.sequence)] = a))

C3_CountRoundTrip ==
    Reached("variants") =>
        \A k \in DOMAIN variants : \A s \in Range(variants[k].sequence) :
            LET leaving == SelectSeq(variants[k].transitions, LAMBDA x : x.from = s)
                mine    == CasesOfVariant(variants[k])
            IN  SumSeq([i \in DOMAIN leaving |-> leaving[i].count])
                  = SumSeq([c \in DOMAIN mine |-> LeavesIn(mine[c].events, s)])

\* C4: every transition entry of a variant counts the occurrences of its pair in the raw
\* event streams of all the variant's cases, not the cases: A,B,A,B,C run by 3 cases
\* yields count(A->B) = 6 and count(B->A) = 3.
C4_CountIsOccurrences ==
    Reached("variants") =>
        /\ \A k \in DOMAIN variants : \A i \in DOMAIN variants[k].transitions :
              LET x    == variants[k].transitions[i]
                  mine == CasesOfVariant(variants[k])
              IN  x.count = SumSeq([c \in DOMAIN mine |->
                                       PairsIn(mine[c].events, x.from, x.to)])
        /\ SequencesOfCases = RepeatedLoopShape =>
              \A i \in DOMAIN variants[1].transitions :
                  LET x == variants[1].transitions[i]
                  IN  /\ (x.from = "A" /\ x.to = "B") => x.count = 6
                      /\ (x.from = "B" /\ x.to = "A") => x.count = 3

C4_Witness ==
    /\ Reached("variants")
    /\ SequencesOfCases = RepeatedLoopShape
    /\ variants[1].case_count = 3
    /\ \E i, j \in DOMAIN variants[1].transitions :
          /\ KeyOf(variants[1].transitions[i]) = TransitionKey("A", "B")
          /\ variants[1].transitions[i].count = 6
          /\ KeyOf(variants[1].transitions[j]) = TransitionKey("B", "A")
          /\ variants[1].transitions[j].count = 3

\* what aggregateVariants reports as the volume of a transition
Volume(x) == <<x.count, x.median_time_hours, x.mean_time_hours, x.percentile_95_hours,
               x.performer_breakdown>>

\* the volume the total flow data holds for a key
TotalVolume(key) ==
    LET e == totalFlow.transitions[FirstIndex(totalFlow.transitions,
                                              LAMBDA x : KeyOf(x) = key)]
        sorted == SortAsc(e.times)
    IN  <<e.count, MedianAt(sorted), OrZero(MeanOf(sorted)), P95At(sorted),
          [k \in DOMAIN e.performer_data |->
              LET ts == SortAsc(e.performer_data[k].times)
              IN  [performer |-> e.performer_data[k].performer,
                   count |-> Len(ts),
                   median_time_hours |-> MedianAt(ts),
                   mean_time_hours |-> OrZero(MeanOf(ts))]]>>

SelectionHasKey(ids, key) ==
    \E v \in DOMAIN variants :
        /\ variants[v].variant_id \in ids
        /\ \E i \in DOMAIN variants[v].transitions : KeyOf(variants[v].transitions[i]) = key

\* C5: aggregation volume invariance: given the total flow data, every transition t of
\* the aggregate of a non-empty selection carries the volume of the total flow data for t,
\* which is also what the aggregate of any other non-empty selection with t reports.
C5_VolumeInvariance ==
    (pc = "aggregated" /\ selection.withTotal /\ selection.ids # {}) =>
        /\ \A i \in DOMAIN aggregated[1].transitions :
              Volume(aggregated[1].transitions[i])
                = TotalVolume(KeyOf(aggregated[1].transitions[i]))
        /\ \A key \in Range(SelectedTransitions(variants)) :
              SelectionHasKey(selection.ids, key) =>
                 \E i \in DOMAIN aggregated[1].transitions :
                     KeyOf(aggregated[1].transitions[i]) = key
        /\ \A ids2 \in (SUBSET VariantIds(variants)) \ {{}} :
              LET other == aggregateVariants(Selected(variants, ids2), totalFlow, TRUE)[1]
              IN  \A i \in DOMAIN aggregated[1].transitions :
                  \A j \in DOMAIN other.transitions :
                      KeyOf(aggregated[1].transitions[i]) = KeyOf(other.transitions[j])
                      => Volume(aggregated[1].transitions[i]) = Volume(other.transitions[j])

\* a selection that leaves out a variant sharing one of its transitions
C5_Witness ==
    /\ pc = "aggregated" /\ selection.withTotal /\ selection.ids # {}
    /\ \E i \in DOMAIN aggregated[1].transitions :
          LET x == aggregated[1].transitions[i]
          IN  /\ x.count > SumSeq([k \in DOMAIN x.contributing_variants |->
                                      x.contributing_variants[k].count])
              /\ \E ids2 \in (SUBSET VariantIds(variants)) \ {{}, selection.ids} :
                    SelectionHasKey(ids2, KeyOf(x))

ScenarioLoaded == SequencesOfCases = ScenarioShape

\* C6: for the cases A,B,C (twice), A,B,D and A,E extractVariants returns 3 variants with
\* case_count 2, 1, 1 in that order, and buildDirectlyFollowsGraph returns
\* startActivities = [A], endActivities = [C, D, E] and an edge A->B with count 3.
C6_Scenario ==
    (ScenarioLoaded /\ Reached("dfg")) =>
        /\ [k \in DOMAIN variants |-> variants[k].case_count] = <<2, 1, 1>>
        /\ [k \in DOMAIN variants |-> variants[k].sequence]
             = << <<"A", "B", "C">>, <<"A", "B", "D">>, <<"A", "E">> >>
        /\ dfg.startActivities = <<"A">>
        /\ dfg.endActivities = <<"C", "D", "E">>
        /\ \E k \in DOMAIN dfg.edges :
              dfg.edges[k].from = "A" /\ dfg.edges[k].to = "B" /\ dfg.edges[k].count = 3

C6_Witness == ScenarioLoaded /\ Reached("dfg") /\ Len(cases) = 4 /\ Len(dfg.edges) = 4

DFGCheckOf(a) == DFGChecks[FirstIndex(DFGChecks, LAMBDA c : c.node = a)]

\* C7 (as claimed): in that scenario checkDFGConservation reports node A balanced with
\* incoming_count = 0 and total_outgoing = 3.
C7_ScenarioOutgoingThree ==
    (ScenarioLoaded /\ Reached("report")) =>
        /\ DFGCheckOf("A").is_balanced
        /\ DFGCheckOf("A").incoming_count = 0
        /\ DFGCheckOf("A").total_outgoing = 3

\* C7 (amended): node A is reported balanced with incoming_count = 0 and
\* total_outgoing = 4: 3 to B and 1 to E; validateDFGConsistency agrees.
C7_ScenarioOutgoingFour ==
    (ScenarioLoaded /\ Reached("report")) =>
        /\ DFGCheckOf("A").is_balanced
        /\ DFGCheckOf("A").incoming_count = 0
        /\ DFGCheckOf("A").total_outgoing = 4
        /\ DFGCheckOf("A").outgoing_counts = [to \in {"B", "E"} |-> IF to = "B" THEN 3 ELSE 1]
        /\ consistency.nodeChecks["A"] = [incoming |-> 0, outgoing |-> 4, isBalanced |-> TRUE]

C7_Witness ==
    /\ ScenarioLoaded /\ Reached("report")
    /\ \E i \in DOMAIN DFGChecks : DFGChecks[i].node = "A" /\ DFGChecks[i].variant = "DFG"

InfoLoopLoaded == SequencesOfCases = InfoLoopShape

\* C8: a single case on the info-loop sequence yields unique_case_count = 1 for
\* review_in_progress and count 1 for review_in_progress -> request_additional_info and for
\* applicant_provided_info -> review_in_progress; in every variant a state's
\* unique_case_count never exceeds the number of distinct cases that contain the state.
C8_OccupancyCountsCases ==
    Reached("variants") =>
        /\ \A k \in DOMAIN variants : \A i \in DOMAIN variants[k].state_occupancy :
              LET so == variants[k].state_occupancy[i]
              IN  so.unique_case_count
                    <= Cardinality({c \in Range(variants[k].cases) :
                           \E e \in Range(events) : e.case_id = c /\ e.state = so.state})
        /\ InfoLoopLoaded =>
              /\ \E i \in DOMAIN variants[1].state_occupancy :
                    variants[1].state_occupancy[i].state = "review_in_progress"
              /\ \A i \in DOMAIN variants[1].state_occupancy :
                    variants[1].state_occupancy[i].state = "review_in_progress"
                    => variants[1].state_occupancy[i].unique_case_count = 1
              /\ \A key \in {TransitionKey("review_in_progress", "request_additional_info"),
                             TransitionKey("applicant_provided_info", "review_in_progress")} :
                    /\ \E i \in DOMAIN variants[1].transitions :
                          KeyOf(variants[1].transitions[i]) = key
                    /\ \A i \in DOMAIN variants[1].transitions :
                          KeyOf(variants[1].transitions[i]) = key
                          => variants[1].transitions[i].count = 1

C8_Witness ==
    /\ Reached("variants") /\ InfoLoopLoaded
    /\ variants[1].variant_id = "info_loop"
    /\ Len(SelectSeq(cases[1].events, LAMBDA e : e.state = "review_in_progress")) = 2

\* median, mean and p95 of a sample list lie between its least and greatest element;
\* of an empty list all three are 0
StatsBounded(median, mean, p95, xs) ==
    IF xs = <<>>
    THEN median = 0 /\ mean = Frac(0, 1) /\ p95 = 0
    ELSE /\ Len(xs) \div 2 < Len(xs)
         /\ (Len(xs) * 95) \div 100 < Len(xs)
         /\ \E lo, hi \in Range(xs) :
               /\ \A x \in Range(xs) : lo <= x /\ x <= hi
               /\ lo <= median /\ median <= hi
               /\ lo <= p95 /\ p95 <= hi
               /\ mean.d > 0 /\ lo * mean.d <= mean.n /\ mean.n <= hi * mean.d

\* the samples aggregateVariants computes the statistics of transition x from
AggregatedSamples(x) ==
    IF selection.withTotal
    THEN totalFlow.transitions[FirstIndex(totalFlow.transitions,
                                          LAMBDA e : KeyOf(e) = KeyOf(x))].times
    ELSE Flatten([k \in DOMAIN x.contributing_variants |->
                     Repeat(x.contributing_variants[k].median_time_hours,
                            x.contributing_variants[k].count)])

C10_EmptyDatasetNeutral ==
    events = <<>> =>
        /\ Reached("cases") => cases = <<>>
        /\ Reached("variants") => variants = <<>>
        /\ Reached("dfg") => dfg.edges = <<>> /\ dfg.nodes = <<>> /\ dfg.totalCases = 0
        /\ Reached("report") => report.failedChecks = 0 /\ report.totalChecks = 0
        /\ Reached("stats") =>
              /\ dfgStats.totalTransitionInstances = 0
              /\ ~IsNaN(dfgStats.averagePathLength)
        /\ Reached("metrics") => ~metrics.threw
        /\ Reached("bottlenecks") => bottlenecks = <<>>

\* the variant a variant-level check was made of
VariantNamed(id) == variants[FirstIndex(variants, LAMBDA v : v.variant_id = id)]

\* the verdict the classification rules give: both start and end: exempt; start only:
\* incoming = 0; end only: outgoing = 0; otherwise incoming = outgoing
RuleVerdict(isStart, isEnd, incoming, outgoing) ==
    IF isStart /\ isEnd THEN TRUE
    ELSE IF isStart THEN incoming = 0
    ELSE IF isEnd THEN outgoing = 0
    ELSE incoming = outgoing

\* C11: a state that is both the start and the end state is always reported balanced,
\* by checkVariantConservation and by checkDFGConservation; otherwise the rules apply in
\* the order start-only (incoming = 0), end-only (outgoing = 0), intermediate
\* (incoming = outgoing).
C11_StartEndExempt ==
    Reached("report") =>
        \A i \in DOMAIN report.nodeResults :
            LET c == report.nodeResults[i]
            IN  IF c.variant = "DFG"
                THEN c.is_balanced
                       = RuleVerdict(c.node \in Range(dfg.startActivities),
                                     c.node \in Range(dfg.endActivities),
                                     c.incoming_count, c.total_outgoing)
                ELSE LET sq == VariantNamed(c.variant).sequence
                     IN  c.is_balanced
                           = RuleVerdict(sq[1] = c.node, sq[Len(sq)] = c.node,
                                         c.incoming_count, c.total_outgoing)

EventDefective(e) ==
    \/ ~e.isObject
    \/ MissingString(e.case_id) \/ MissingString(e.state) \/ MissingString(e.timestamp)
    \/ InvalidPerformer(e.performer)

\* some case's last state by timestamp is not final; decided only where every
\* timestamp of the document parses
OpenCase(log) ==
    /\ \A i \in DOMAIN log.events.items :
          log.events.items[i].isObject /\ DateOf(log.events.items[i].timestamp) # <<>>
    /\ \E i \in DOMAIN log.events.items :
          LET e == log.events.items[i]
          IN  /\ ~(e.state.t = "string" /\ e.state.v \in FINAL_STATES)
              /\ \A k \in DOMAIN log.events.items :
                    LET f == log.events.items[k]
                    IN  (f.case_id = e.case_id /\ k # i) =>
                            \/ DateOf(f.timestamp)[1] < DateOf(e.timestamp)[1]
                            \/ (DateOf(f.timestamp)[1] = DateOf(e.timestamp)[1] /\ k < i)

Defective(log) ==
    \/ ~log.isObject
    \/ ~log.events.isArray
    \/ \E i \in DOMAIN log.events.items : EventDefective(log.events.items[i])
    \/ OpenCase(log)

\* C14: every call of validateEventLog returns, with isValid true exactly when the
\* error list is empty, and with a non-empty error list whenever events is not an
\* array, an event lacks a non-empty string case_id, state or timestamp, a performer
\* is neither null nor a string, or a case's last state by timestamp is not final
C14_ValidationReports ==
    lastValidation # <<>> =>
        LET log == lastValidation[1].log
            result == lastValidation[1].result
        IN  /\ ~result.threw
            /\ result.isValid <=> (result.errors = <<>>)
            /\ Defective(log) => result.errors # <<>>

\* C14 on documents whose events are all objects: the part of the contract the code
\* keeps
C14_ReportsOnObjects ==
    (lastValidation # <<>> /\ ~lastValidation[1].result.threw) =>
        LET log == lastValidation[1].log
            result == lastValidation[1].result
        IN  /\ result.isValid <=> (result.errors = <<>>)
            /\ Defective(log) => result.errors # <<>>

\* C15: the hook holds an event log only if the validation of that log returned
\* valid, and never holds an event log and an error together
C15_OnlyValidLogHeld ==
    /\ hook.eventLog # <<>> =>
          /\ hook.validationResult # <<>>
          /\ hook.validationResult[1].isValid
          /\ hook.validationResult[1].errors = <<>>
          /\ \E lastStates \in SortOutcomes(hook.eventLog[1]) :
                LET v == validateEventLog(hook.eventLog[1], lastStates)
                IN  ~v.threw /\ v.isValid
          /\ ~Defective(hook.eventLog[1])
    /\ ~(hook.eventLog # <<>> /\ hook.error # <<>>)

\* a valid log is held while another load is in flight, after an earlier failure
C15_Witness ==
    /\ hook.eventLog # <<>>
    /\ hook.isLoading
    /\ pending # <<>>
    /\ lastValidation # <<>>
    /\ lastValidation[1].log = hook.eventLog[1]
    /\ Len(hook.eventLog[1].events.items) > 1

\* an invalid document went through loadEventLog and is not held
C15_RejectedWitness ==
    /\ lastValidation # <<>>
    /\ ~lastValidation[1].result.threw
    /\ ~lastValidation[1].result.isValid
    /\ hook.eventLog = <<>>
    /\ hook.error = <<"Validation failed">>


(***************************************************************************)
(* Variant identity                                                        *)
(***************************************************************************)
\* the variants that list the case
VariantsHolding(caseId) ==
    {v \in DOMAIN variants : caseId \in Range(variants[v].cases)}

VariantIdentity ==
    /\ \A i, j \in DOMAIN cases :
          (VariantsHolding(cases[i].case_id) \cap VariantsHolding(cases[j].case_id) # {})
              <=> cases[i].sequence = cases[j].sequence
    /\ \A i \in DOMAIN cases : Cardinality(VariantsHolding(cases[i].case_id)) = 1
    /\ \A v \in DOMAIN variants : variants[v].case_count = Len(variants[v].cases)
    /\ SumSeq([v \in DOMAIN variants |-> variants[v].case_count]) = Len(cases)

\* C16: two cases are in the same variant exactly when their state sequences are
\* identical, every case is in exactly one variant, case_count is the number of case
\* ids of the variant, and the case_counts sum to the number of cases
C16_VariantIdentity == Reached("variants") => VariantIdentity

\* C16 on logs none of whose state names holds the separator of the variant key
C16_IdentityWithoutSeparator ==
    (Reached("variants") /\ \A i \in DOMAIN events : events[i].state # "A" \o Arrow \o "B")
        => VariantIdentity


(***************************************************************************)
(* Bottleneck policies                                                     *)
(***************************************************************************)
\* the least case_count of a variant under the expected-time policy
ExpectedMinCases == 5

\* the configured expected maximum of from -> to: <<>> when none is configured
ExpectedMax(from, to) ==
    LET k == FirstIndex(TRANSITION_TIME_RANGES, LAMBDA r : r.from = from /\ r.to = to)
    IN  IF k = 0 THEN <<>> ELSE <<TRANSITION_TIME_RANGES[k].max>>

\* mean > max * 1.2
Overdue(mean, max) == mean.n * max.d * 10 > max.n * 12 * mean.d

TransitionFlagged(x) ==
    \E i \in DOMAIN bottlenecks :
        bottlenecks[i].type = "transition" /\ bottlenecks[i].identifier = <<x.from, x.to>>

\* C17: identifyBottlenecks flags every transition whose mean time exceeds 1.2 times
\* the expected maximum configured for its from -> to pair when its variant has at
\* least 5 cases
C17_ExpectedTimePolicy ==
    Reached("bottlenecks") =>
        \A v \in DOMAIN variants : \A k \in DOMAIN variants[v].transitions :
            LET x == variants[v].transitions[k]
                max == ExpectedMax(x.from, x.to)
            IN  (/\ max # <<>>
                 /\ variants[v].case_count >= ExpectedMinCases
                 /\ Overdue(x.mean_time_hours, max[1]))
                    => TransitionFlagged(x)


\* x is the element at index at (counted from 0) of the pool sorted ascending
IsElementAt(pool, at, x) ==
    /\ x \in Range(pool)
    /\ Cardinality({i \in DOMAIN pool : pool[i] < x}) <= at
    /\ Cardinality({i \in DOMAIN pool : pool[i] <= x}) > at

\* the element at index floor(0.9 * n) of the sorted pool of n times; 0 for no times
ThresholdOf(pool) ==
    IF pool = <<>> THEN 0
    ELSE CHOOSE x \in Range(pool) : IsElementAt(pool, (Len(pool) * 9) \div 10, x)

\* the median times of every transition of every variant
AllMedians ==
    Flatten([v \in DOMAIN variants |->
                [k \in DOMAIN variants[v].transitions |->
                    variants[v].transitions[k].median_time_hours]])

TransitionRecord(v, x) ==
    [type |-> "transition", identifier |-> <<x.from, x.to>>,
     score |-> Frac(x.median_time_hours, 1), affectedCases |-> v.case_count]

\* the transition records are those of the transitions at or above the threshold T in
\* the variants of at least 10 cases
PercentilePolicy(T) ==
    /\ \A v \in DOMAIN variants : \A k \in DOMAIN variants[v].transitions :
          LET x == variants[v].transitions[k]
          IN  TransitionRecord(variants[v], x) \in Range(bottlenecks)
                  <=> (x.median_time_hours >= T /\ variants[v].case_count >= 10)
    /\ \A i \in DOMAIN bottlenecks :
          bottlenecks[i].type = "transition" =>
              /\ bottlenecks[i].affectedCases >= 10
              /\ \E v \in DOMAIN variants : \E k \in DOMAIN variants[v].transitions :
                    bottlenecks[i] = TransitionRecord(variants[v], variants[v].transitions[k])

\* C18: identifyBottlenecks emits a transition record for transition t of variant v
\* exactly when t's median time is at least T and v has at least 10 cases, T the
\* element at index floor(0.9 * n) of the sorted pool of the median times of every
\* transition of every variant; every such record has affectedCases of at least 10
C18_PercentilePolicy == Reached("bottlenecks") => PercentilePolicy(ThresholdOf(AllMedians))

\* C18 with the pool the code builds: the median times above zero of the transitions
\* of every variant, and T = 0 when there is none
C18_PositivePoolPolicy ==
    Reached("bottlenecks") =>
        PercentilePolicy(ThresholdOf(SelectSeq(AllMedians, LAMBDA m : m > 0)))

\* a variant of at least 10 cases has one transition flagged and one below the
\* threshold, and some other transition is immediate
C18_Witness ==
    /\ Reached("bottlenecks")
    /\ \E v \in DOMAIN variants : \E k, j \in DOMAIN variants[v].transitions :
          /\ variants[v].case_count >= 10
          /\ TransitionRecord(variants[v], variants[v].transitions[k]) \in Range(bottlenecks)
          /\ TransitionRecord(variants[v], variants[v].transitions[j])
                 \notin Range(bottlenecks)
    /\ 0 \in Range(AllMedians)


\* the hours of the transitions that performer p handled: the adjacent event pairs of
\* the cases whose target event p performed
HandledBy(p) ==
    Flatten([c \in DOMAIN cases |->
                LET evs == cases[c].events
                    at  == SelectSeq([j \in 1..(Len(evs) - 1) |-> j + 1],
                                     LAMBDA j : evs[j].performer = p)
                IN  [k \in DOMAIN at |-> evs[at[k]].timestamp - evs[at[k] - 1].timestamp]])

\* the performers that handled a transition
Handlers == {events[i].performer : i \in DOMAIN events} \ {NoPerformer, SystemPerformer}
ActiveHandlers == {p \in Handlers : HandledBy(p) # <<>>}

\* p is among the top max(1, floor(0.2 * P)) of the P performers by mean handled time:
\* fewer than that many performers have a higher mean
AmongSlowest(p) ==
    LET top == IF (Cardinality(ActiveHandlers) * 2) \div 10 > 1
               THEN (Cardinality(ActiveHandlers) * 2) \div 10 ELSE 1
    IN  /\ p \in ActiveHandlers
        /\ Cardinality({q \in ActiveHandlers :
                           FracLess(MeanOf(HandledBy(p)), MeanOf(HandledBy(q)))}) < top

\* the performers of the performer records of identifyBottlenecks
RecordedPerformers ==
    {bottlenecks[i].identifier[1] :
        i \in {j \in DOMAIN bottlenecks : bottlenecks[j].type = "performer"}}

\* performerMetrics.bottleneckPerformers of calculateProcessMetrics
MetricsPerformers ==
    IF metrics.threw THEN {} ELSE Range(metrics.performerMetrics.bottleneckPerformers)

\* C19: every performer reported as a bottleneck, by a performer record of
\* identifyBottlenecks or in bottleneckPerformers of calculateProcessMetrics, is among
\* the top max(1, floor(0.2 * P)) performers by mean handled-transition time and has
\* handled at least 5 transitions
C19_SlowAndBusy ==
    Reached("bottlenecks") =>
        \A p \in RecordedPerformers \cup MetricsPerformers :
            AmongSlowest(p) /\ Len(HandledBy(p)) >= 5

\* C19 for the performer records of identifyBottlenecks alone
C19_RecordsSlowAndBusy ==
    Reached("bottlenecks") =>
        \A p \in RecordedPerformers : AmongSlowest(p) /\ Len(HandledBy(p)) >= 5


(***************************************************************************)
(* The conservation report                                                 *)
(***************************************************************************)
\* every variant check and every DFG check is balanced
AllBalanced ==
    /\ \A v \in DOMAIN variants :
          \A i \in DOMAIN checkVariantConservation(variants[v]) :
              checkVariantConservation(variants[v])[i].is_balanced
    /\ \A i \in DOMAIN checkDFGConservation(dfg) : checkDFGConservation(dfg)[i].is_balanced

CleanReport ==
    /\ report.overallStatus = "PASS"
    /\ report.failedChecks = 0
    /\ report.summary.criticalErrors = <<>>
    /\ report.summary.warnings = <<>>

\* C20: when every variant check and every DFG check is balanced, the report has
\* overallStatus PASS, failedChecks 0 and empty criticalErrors, warnings and
\* recommendations; recommendations are emitted only when a check fails
C20_SilentWhenBalanced ==
    Reached("report") =>
        /\ AllBalanced => (CleanReport /\ report.summary.recommendations = <<>>)
        /\ report.summary.recommendations # <<>> => ~AllBalanced

\* C20 with the confirmation the code adds: when every check is balanced the report is
\* clean and its only recommendation is the confirmation that all checks passed; any
\* other recommendation is emitted only when a check fails
C20_ConfirmsWhenBalanced ==
    Reached("report") =>
        /\ AllBalanced =>
              /\ CleanReport
              /\ report.summary.recommendations =
                     <<"All conservation checks passed - data integrity confirmed">>
        /\ (\E i \in DOMAIN report.summary.recommendations :
                report.summary.recommendations[i]
                    # "All conservation checks passed - data integrity confirmed")
              => ~AllBalanced

\* a report of several variants whose checks are all balanced
C20_Witness ==
    /\ Reached("report")
    /\ AllBalanced
    /\ Len(variants) > 1
    /\ report.totalChecks > 3


(***************************************************************************)
(* The two DFG balance checks                                              *)
(***************************************************************************)
\* C21: validateDFGConsistency and checkDFGConservation cover the same nodes and report,
\* node by node, the same incoming sum, the same outgoing sum and the same verdict;
\* isConsistent is true exactly when every check of checkDFGConservation is balanced
C21_ChecksAgree ==
    Reached("report") =>
        /\ DOMAIN consistency.nodeChecks = {DFGChecks[i].node : i \in DOMAIN DFGChecks}
        /\ \A i \in DOMAIN DFGChecks :
              LET c == DFGChecks[i]
                  n == consistency.nodeChecks[c.node]
              IN  /\ n.incoming = c.incoming_count
                  /\ n.outgoing = c.total_outgoing
                  /\ n.isBalanced = c.is_balanced
        /\ consistency.isConsistent <=> \A i \in DOMAIN DFGChecks : DFGChecks[i].is_balanced

\* both checks exempt an activity that starts and ends cases although edges enter it,
\* and both fail another activity of the same graph
C21_Witness ==
    /\ Reached("report")
    /\ ~consistency.isConsistent
    /\ \E i \in DOMAIN DFGChecks :
          /\ DFGChecks[i].node \in Range(dfg.startActivities)
          /\ DFGChecks[i].node \in Range(dfg.endActivities)
          /\ DFGChecks[i].incoming_count > 0
          /\ DFGChecks[i].is_balanced


(***************************************************************************)
(* Case reconstruction                                                     *)
(***************************************************************************)
\* the input events of a case, in input order
InputOf(caseId) == SelectSeq(events, LAMBDA e : e.case_id = caseId)

\* how often the record e occurs in s
TimesIn(s, e) == Cardinality({i \in DOMAIN s : s[i] = e})

\* C22: extractCases returns one case per distinct case_id; every input event is in
\* exactly one case, the one of its case_id; the events of a case are in non-decreasing
\* timestamp order, events of equal timestamp in their input order; sequence is the
\* states of the sorted events, start_time and end_time are the timestamps of the first
\* and the last sorted event, and a case of one event has duration 0
C22_CasesPartitionEvents ==
    Reached("cases") =>
        /\ \A i, j \in DOMAIN cases : cases[i].case_id = cases[j].case_id => i = j
        /\ {cases[i].case_id : i \in DOMAIN cases} = {events[i].case_id : i \in DOMAIN events}
        /\ SumSeq([i \in DOMAIN cases |-> Len(cases[i].events)]) = Len(events)
        /\ \A i \in DOMAIN cases :
              LET c  == cases[i]
                  in == InputOf(c.case_id)
              IN  /\ Len(c.events) = Len(in)
                  /\ \A k \in DOMAIN in : TimesIn(c.events, in[k]) = TimesIn(in, in[k])
                  /\ \A k \in 1..(Len(c.events) - 1) :
                        c.events[k].timestamp <= c.events[k + 1].timestamp
                  /\ \A k \in DOMAIN in :
                        SelectSeq(c.events, LAMBDA e : e.timestamp = in[k].timestamp)
                            = SelectSeq(in, LAMBDA e : e.timestamp = in[k].timestamp)
                  /\ c.sequence = [k \in DOMAIN c.events |-> c.events[k].state]
                  /\ c.start_time = c.events[1].timestamp
                  /\ c.end_time = c.events[Len(c.events)].timestamp
                  /\ Len(c.events) = 1 => c.total_duration_hours = 0

\* a case delivered out of order that holds events of equal timestamp, beside a case of
\* a single event
C22_Witness ==
    /\ Reached("cases")
    /\ \E i, j \in DOMAIN cases :
          /\ cases[i].events # InputOf(cases[i].case_id)
          /\ \E k \in 1..(Len(cases[i].events) - 1) :
                /\ cases[i].events[k].timestamp = cases[i].events[k + 1].timestamp
                /\ cases[i].events[k] # cases[i].events[k + 1]
          /\ cases[i].start_time < cases[i].end_time
          /\ Len(cases[j].events) = 1


(***************************************************************************)
(* C23                                                                     *)
(***************************************************************************)
\* the adjacent pairs of the sequences of all cases
AdjacentPairs == UNION {Range(PairsOf(cases[k].sequence)) : k \in DOMAIN cases}

\* how often `to` directly follows `from`, over all cases
AdjacentOccurrences(from, to) ==
    SumSeq([k \in DOMAIN cases |->
               Len(SelectSeq(PairsOf(cases[k].sequence), LAMBDA pr : pr = <<from, to>>))])

\* how often edge e is listed in the list of edges es
ListedIn(es, e) == Cardinality({i \in DOMAIN es : es[i] = e})

SelectedStates ==
    UNION {Range(v.sequence) : v \in Range(Selected(variants, selection.ids))}

\* the from -> to pairs of the transitions of the selected variants
SelectedPairs ==
    UNION {{<<v.transitions[k].from, v.transitions[k].to>> : k \in DOMAIN v.transitions}
           : v \in Range(Selected(variants, selection.ids))}

C24_NullWitness ==
    pc = "aggregated" /\ selection.ids = {} /\ Len(variants) > 0 /\ aggregated = <<>>


(***************************************************************************)
(* C25                                                                     *)
(***************************************************************************)
\* the position in the case list of the first case that has the sequence of variant v
FirstEncounter(v) == FirstIndex(cases, LAMBDA c : c.sequence = v.sequence)

\* C25: extractVariants returns the variants by case_count, largest first, and of two
\* variants with the same case_count the one whose sequence comes first in the case
\* list stands first
C25_SortedByCaseCount ==
    Reached("variants") =>
        \A i, j \in DOMAIN variants :
            i < j =>
                /\ FirstEncounter(variants[i]) # 0
                /\ variants[i].case_count >= variants[j].case_count
                /\ variants[i].case_count = variants[j].case_count
                      => FirstEncounter(variants[i]) < FirstEncounter(variants[j])

\* a variant found last that has the most cases, ahead of two variants that tie
C25_Witness ==
    /\ Reached("variants")
    /\ Len(variants) = 3
    /\ FirstEncounter(variants[1]) > FirstEncounter(variants[3])
    /\ variants[1].case_count > variants[2].case_count
    /\ variants[2].case_count = variants[3].case_count


(***************************************************************************)
(* C26                                                                     *)
(***************************************************************************)
\* the times between the adjacent events of the occurrences of from -> to in case c
GapsOfCase(c, from, to) ==
    LET at == SelectSeq([i \in 1..(Len(c.events) - 1) |-> i],
                        LAMBDA i : c.events[i].state = from /\ c.events[i + 1].state = to)
    IN  [k \in DOMAIN at |-> c.events[at[k] + 1].timestamp - c.events[at[k]].timestamp]

\* the same over all cases, in the order the cases are processed
GapsOfOccurrences(from, to) ==
    Flatten([k \in DOMAIN cases |-> GapsOfCase(cases[k], from, to)])

\* C26: the events of every case being in non-decreasing time order, every duration
\* sample of a graph edge and of a total-flow transition is non-negative and is the time
\* between the two adjacent events of the occurrence it was recorded for, also when a
\* case revisits a state
C26_DurationsAreGaps ==
    Reached("flow") =>
        /\ \A i \in DOMAIN dfg.edges :
              LET e == dfg.edges[i]
              IN  /\ e.durations = GapsOfOccurrences(e.from, e.to)
                  /\ \A k \in DOMAIN e.durations : e.durations[k] >= 0
        /\ \A i \in DOMAIN totalFlow.transitions :
              LET t == totalFlow.transitions[i]
              IN  /\ t.times = GapsOfOccurrences(t.from, t.to)
                  /\ \A k \in DOMAIN t.times : t.times[k] >= 0


(***************************************************************************)
(* C27                                                                     *)
(***************************************************************************)
\* the entries of variant v for the pair from -> to
EntriesFor(v, from, to) ==
    {k \in DOMAIN v.transitions : v.transitions[k].from = from /\ v.transitions[k].to = to}

\* the state_occupancy entries of variant v for a state
OccupancyEntriesFor(v, state) ==
    {k \in DOMAIN v.state_occupancy : v.state_occupancy[k].state = state}

\* transitions holds each pair at most once
TransitionsUnique(v) ==
    \A k \in DOMAIN v.transitions :
        Cardinality(EntriesFor(v, v.transitions[k].from, v.transitions[k].to)) = 1

\* state_occupancy holds each state of the sequence exactly once, and nothing else
OccupancyUnique(v) ==
    /\ \A s \in Range(v.sequence) : Cardinality(OccupancyEntriesFor(v, s)) = 1
    /\ \A k \in DOMAIN v.state_occupancy : v.state_occupancy[k].state \in Range(v.sequence)

\* C27: in every variant of extractVariants, transitions has at most one entry per
\* (from, to) pair and state_occupancy exactly one entry per distinct state of the
\* sequence, also when the sequence repeats a state or an adjacent pair
C27_OneEntryPerPairAndState ==
    Reached("variants") =>
        \A i \in DOMAIN variants : TransitionsUnique(variants[i]) /\ OccupancyUnique(variants[i])


(***************************************************************************)
(* C28                                                                     *)
(***************************************************************************)
\* the count the graph holds for from -> to, 0 if it has no such edge
DFGCountOf(from, to) ==
    LET i == FirstIndex(dfg.edges, LAMBDA e : e.from = from /\ e.to = to)
    IN  IF i = 0 THEN 0 ELSE dfg.edges[i].count

\* the count the total flow data holds for from -> to, 0 if it has no such transition
FlowCountOf(from, to) ==
    LET i == FirstIndex(totalFlow.transitions, LAMBDA t : t.from = from /\ t.to = to)
    IN  IF i = 0 THEN 0 ELSE totalFlow.transitions[i].count

\* the activities of the case list
ActivitiesOfCases == UNION {Range(cases[k].sequence) : k \in DOMAIN cases}

validateWorkerSplitConservation(originalTransition, workerBreakdown) ==
    LET actualTotal   == SumSeq([k \in DOMAIN workerBreakdown |-> workerBreakdown[k].count])
        expectedTotal == originalTransition.count
    IN  [isValid |-> actualTotal = expectedTotal,
         details |->
            [expectedTotal |-> expectedTotal,
             actualTotal |-> actualTotal,
             breakdown |->
                [k \in DOMAIN workerBreakdown |->
                    [worker |-> workerBreakdown[k].performer,
                     count |-> workerBreakdown[k].count]]]]

\* C29: for every transition of every variant of extractVariants the counts of its
\* performer_breakdown add up to its count, so validateWorkerSplitConservation finds it
\* valid, also when the target event of an occurrence has no performer
C29_WorkerSplitConserved ==
    Reached("variants") =>
        \A i \in DOMAIN variants : \A k \in DOMAIN variants[i].transitions :
            LET t == variants[i].transitions[k]
            IN  validateWorkerSplitConservation(t, t.performer_breakdown).isValid


(***************************************************************************)
(* C30                                                                     *)
(***************************************************************************)
\* what a load leaves in the state besides isLoading
Outcome(s) == <<s.eventLog, s.error, s.validationResult>>

\* a load completes and others stay in flight: isLoading stays true
StaysLoading ==
    \A i \in DOMAIN pending :
        (pending' = AfterCompletion(pending, i) /\ pending' # <<>>) => hook'.isLoading

\* the last load in flight completes after one started later has completed: the state
\* keeps the outcome of the one started later
LastStartedKept ==
    \A i \in DOMAIN pending :
        (pending' = AfterCompletion(pending, i) /\ pending' = <<>> /\ pending[i].overtaken)
            => Outcome(hook') = Outcome(hook)

\* C30: when two loads started one after the other complete in either order, then once
\* both have completed eventLog, error and validationResult are the outcome of the load
\* started last, and isLoading is false only when no load is in flight
C30_LastStartedLoadWins == [][StaysLoading /\ LastStartedKept]_vars

====
